---- MODULE Spec2Model ----
(***************************************************************************)
(* Financial metric extraction, validation and aggregation engine of the   *)
(* multi-agent financial analysis platform.                                *)
(*                                                                         *)
(* Numbers.  The program computes with Python floats.  A monetary value    *)
(* (millions of AED) is held here as an integer count of thousandths of a  *)
(* million, so 5120.0 is 5120000 and 5.1 is 5100.  A confidence is held as *)
(* an integer count of hundredths, so 0.7 is 70.  Every input of the model *)
(* is chosen so that these fixed-point values are exact.                   *)
(*                                                                         *)
(* Strings.  A string the program inspects character by character (the     *)
(* argument of _convert_to_numeric) is a sequence of one-character         *)
(* strings.  Chunk content is a sequence of tokens (see the matcher).      *)
(***************************************************************************)
EXTENDS Integers, Sequences, FiniteSets, TLC

VARIABLES
    \* --- FinancialDataExtractor.extract_data / _extract_metrics_from_chunk
    search_results,   \* the chunks returned by the vector store
    ci,               \* index of the chunk of the extract_data loop
    pc,               \* position of the pipeline
    cleaned_metadata, \* cleaned metadata of the current chunk
    period,           \* period key of the current chunk
    todo,             \* candidates of the current loop still to process
    metrics,          \* list built by _extract_metrics_from_chunk
    data_points,      \* list built by extract_data
    log,              \* what the pipeline printed (diagnostics)
    \* --- _group_data_by_period
    group_input,      \* the list handed to the aggregator
    gi,               \* index of the grouping loop
    grouped,          \* period -> metric -> value, as a function on pairs
    \* --- FinancialDataValidator.validate_extraction as a function call
    v_metric, v_value, v_result,
    \* --- _convert_to_numeric as a function call
    n_input, n_result,
    \* --- FinancialCalculator
    calc_call,           \* the operation called and its arguments
    calc_result,         \* what the call returned
    calculation_history, \* self.calculation_history
    \* --- TemporalReasoningTool and the query parsers
    t_call,              \* the operation called and its arguments
    t_result,            \* what the call returned
    \* --- OrchestratorAgent
    state                \* the WorkflowState handed from node to node

extractVars == <<search_results, ci, cleaned_metadata, period, todo, metrics, data_points, log>>
groupVars == <<group_input, gi, grouped>>
validateVars == <<v_metric, v_value, v_result>>
convertVars == <<n_input, n_result>>
calcVars == <<calc_call, calc_result, calculation_history>>
temporalVars == <<t_call, t_result>>
workflowVars == <<state>>
toolVars == <<calcVars, temporalVars, workflowVars>>
vars == <<pc, extractVars, groupVars, validateVars, convertVars, toolVars>>

\* Thousandths per unit: the fixed-point denominator of monetary values.
Milli == 10 * 100

\* A value that stands for "not computed yet".
None == [none |-> TRUE]

-----------------------------------------------------------------------------
(* Characters *)

Digits == <<"0", "1", "2", "3", "4", "5", "6", "7", "8", "9">>
UpperCase == <<"A", "B", "C", "D", "E", "F", "G", "H", "I", "J", "K", "L", "M",
               "N", "O", "P", "Q", "R", "S", "T", "U", "V", "W", "X", "Y", "Z">>
LowerCase == <<"a", "b", "c", "d", "e", "f", "g", "h", "i", "j", "k", "l", "m",
               "n", "o", "p", "q", "r", "s", "t", "u", "v", "w", "x", "y", "z">>

IsDigit(c) == \E i \in 1..10 : Digits[i] = c
DigitVal(c) == (CHOOSE i \in 1..10 : Digits[i] = c) - 1

\* str.lower() on one character
LowerChar(c) ==
    IF \E i \in 1..26 : UpperCase[i] = c
    THEN LowerCase[CHOOSE i \in 1..26 : UpperCase[i] = c]
    ELSE c

\* str.lower()
Lower(s) == [i \in 1..Len(s) |-> LowerChar(s[i])]

\* Python's `sub in s`
Contains(s, sub) ==
    \E i \in 1..(Len(s) - Len(sub) + 1) : SubSeq(s, i, i + Len(sub) - 1) = sub

\* str.strip() of blanks
RECURSIVE LStrip(_)
LStrip(s) == IF s # <<>> /\ Head(s) = " " THEN LStrip(Tail(s)) ELSE s
RECURSIVE RStrip(_)
RStrip(s) == IF s # <<>> /\ s[Len(s)] = " " THEN RStrip(SubSeq(s, 1, Len(s) - 1)) ELSE s
Strip(s) == RStrip(LStrip(s))

Str_trillion == <<"t", "r", "i", "l", "l", "i", "o", "n">>
Str_billion == <<"b", "i", "l", "l", "i", "o", "n">>
Str_bn == <<"b", "n">>
Str_million == <<"m", "i", "l", "l", "i", "o", "n">>
Str_thousands == <<"'", "0", "0", "0">>

-----------------------------------------------------------------------------
(* float(): the value of a string of digits and points, in thousandths *)

RECURSIVE DigitsToInt(_)
DigitsToInt(s) ==
    IF s = <<>> THEN 0
    ELSE 10 * DigitsToInt(SubSeq(s, 1, Len(s) - 1)) + DigitVal(s[Len(s)])

Points(s) == {i \in 1..Len(s) : s[i] = "."}

\* float(s) raises ValueError: no digit at all, or more than one point
FloatRaises(s) ==
    \/ \A i \in 1..Len(s) : ~IsDigit(s[i])
    \/ Cardinality(Points(s)) > 1

\* the fractional digits as thousandths (digits past the third are dropped)
FracMilli(f) ==
    LET d(k) == IF k <= Len(f) THEN DigitVal(f[k]) ELSE 0
    IN 100 * d(1) + 10 * d(2) + d(3)

\* float(s) for a string for which it does not raise
FloatMilli(s) ==
    IF Points(s) = {} THEN Milli * DigitsToInt(s)
    ELSE LET p == CHOOSE i \in Points(s) : TRUE
         IN Milli * DigitsToInt(SubSeq(s, 1, p - 1)) + FracMilli(SubSeq(s, p + 1, Len(s)))

\* float(s) is exact in thousandths
FloatExact(s) ==
    Points(s) = {} \/
    LET p == CHOOSE i \in Points(s) : TRUE
    IN \A k \in (p + 4)..Len(s) : s[k] = "0"

-----------------------------------------------------------------------------
(* FinancialDataExtractor._convert_to_numeric *)

\* re.sub(r'[^\d.]', '', s)
Cleaned(s) == SelectSeq(s, LAMBDA c : IsDigit(c) \/ c = ".")

\* the division of line 417 is exact in thousandths
ScaleExact(value, value_str) ==
    (/\ ~Contains(Lower(value_str), Str_trillion)
     /\ ~Contains(Lower(value_str), Str_billion)
     /\ ~Contains(Lower(value_str), Str_bn)
     /\ Contains(value_str, Str_thousands)) => value % 1000 = 0

\* lines 411-417: the unit words of the string scale the value
ScaleValue(value, value_str) ==
    IF Contains(Lower(value_str), Str_trillion) THEN value * 1000000
    ELSE IF Contains(Lower(value_str), Str_billion) \/ Contains(Lower(value_str), Str_bn)
         THEN value * 1000
    ELSE IF Contains(value_str, Str_thousands) THEN value \div 1000
    ELSE value

\* The mutant of convert_to_numeric that answers 1.0 where it should give up.
convert_to_numeric_NoSentinel(value_str) ==
    IF value_str = <<>> THEN Milli
    ELSE LET cleaned == Cleaned(Strip(value_str))
         IN IF cleaned = <<>> THEN Milli
            ELSE IF FloatRaises(cleaned) THEN Milli
            ELSE ScaleValue(FloatMilli(cleaned), value_str)

\* _convert_to_numeric: 0 is the 0.0 the function returns when it gives up
convert_to_numeric(value_str) ==
    IF value_str = <<>> THEN 0
    ELSE LET cleaned == Cleaned(Strip(value_str))
         IN IF cleaned = <<>> THEN 0
            ELSE IF FloatRaises(cleaned) THEN 0
            ELSE ScaleValue(FloatMilli(cleaned), value_str)

-----------------------------------------------------------------------------
(* FinancialDataValidator *)

\* table_cell_ranges (lines 11-18), in millions
table_cell_ranges ==
    [net_profit |-> <<1, 1000>>,
     total_assets |-> <<1, 10000>>,
     shareholder_equity |-> <<1, 10000>>,
     total_loans |-> <<1, 10000>>,
     total_deposits |-> <<1, 10000>>,
     net_interest_income |-> <<1, 1000>>]

\* main_financial_ranges (lines 20-27), in millions
main_financial_ranges ==
    [net_profit |-> <<1000, 20000>>,
     total_assets |-> <<400000, 1200000>>,
     shareholder_equity |-> <<80000, 120000>>,
     total_loans |-> <<200000, 500000>>,
     total_deposits |-> <<300000, 600000>>,
     net_interest_income |-> <<1000, 15000>>]

\* `table_min <= value <= table_max`, value in thousandths
InTableBand(metric, value) ==
    /\ metric \in DOMAIN table_cell_ranges
    /\ table_cell_ranges[metric][1] * Milli <= value
    /\ value <= table_cell_ranges[metric][2] * Milli

\* `main_min <= value <= main_max`, value in thousandths
InMainBand(metric, value) ==
    /\ metric \in DOMAIN main_financial_ranges
    /\ main_financial_ranges[metric][1] * Milli <= value
    /\ value <= main_financial_ranges[metric][2] * Milli

\* round(n / q) to the nearest integer, ties to even
RoundDiv(n, q) ==
    LET f == n \div q
        r == n % q
    IN IF 2 * r > q THEN f + 1
       ELSE IF 2 * r < q THEN f
       ELSE IF f % 2 = 0 THEN f ELSE f + 1

Abs(x) == IF x < 0 THEN -x ELSE x

\* The mutant of MainConfidence whose floor is 0.6, the table-cell confidence,
\* instead of 0.7.
MainConfidence_Floor60(metric, value) ==
    LET main_min == main_financial_ranges[metric][1]
        main_max == main_financial_ranges[metric][2]
        median == 500 * (main_min + main_max)
        n == median - Abs(value - median)
        q == 5 * (main_min + main_max)
    IN IF n <= 60 * q THEN 60 ELSE RoundDiv(n, q)

\* lines 59-61 and 64: round(max(0.7, 1 - |value - median| / median), 2), in
\* hundredths.  With median = (min + max) / 2 in millions, the median in
\* thousandths is 500 * (min + max), and 100 * (1 - deviation) is
\* (median - |value - median|) / (5 * (min + max)).
MainConfidence(metric, value) ==
    LET main_min == main_financial_ranges[metric][1]
        main_max == main_financial_ranges[metric][2]
        median == 500 * (main_min + main_max)
        n == median - Abs(value - median)
        q == 5 * (main_min + main_max)
    IN IF n <= 70 * q THEN 70 ELSE RoundDiv(n, q)

\* The mutant of TableConfidence that excludes the value 1,000 itself.
TableConfidence_Strict(value) ==
    IF 1 * Milli <= value /\ value < 1000 * Milli THEN 70 ELSE 60

\* lines 42-45: the confidence of a table-cell value
TableConfidence(value) ==
    IF 1 * Milli <= value /\ value <= 1000 * Milli THEN 70 ELSE 60

\* The mutant of validate_extraction whose last return marks the value valid.
validate_extraction_FallThroughValid(metric, value) ==
    IF metric \notin DOMAIN main_financial_ranges
    THEN [is_valid |-> TRUE, confidence |-> 70]
    ELSE IF InTableBand(metric, value)
    THEN [is_valid |-> TRUE, confidence |-> TableConfidence(value),
          note |-> <<"Table cell value", value>>, value_type |-> "table_cell"]
    ELSE IF InMainBand(metric, value)
    THEN [is_valid |-> TRUE, confidence |-> MainConfidence(metric, value),
          value_type |-> "main_financial"]
    ELSE [is_valid |-> TRUE, confidence |-> 10,
          issue |-> <<"Value", value, "doesn't match expected ranges for", metric>>,
          suggestion |-> "Table cells: 1-1,000M, Main financials: 1,000M+"]

\* validate_extraction (lines 32-74); the result dict is a record that has
\* the keys the code sets
validate_extraction(metric, value) ==
    IF metric \notin DOMAIN main_financial_ranges
    THEN [is_valid |-> TRUE, confidence |-> 70]
    ELSE IF InTableBand(metric, value)
    THEN [is_valid |-> TRUE, confidence |-> TableConfidence(value),
          note |-> <<"Table cell value", value>>, value_type |-> "table_cell"]
    ELSE IF InMainBand(metric, value)
    THEN [is_valid |-> TRUE, confidence |-> MainConfidence(metric, value),
          value_type |-> "main_financial"]
    ELSE [is_valid |-> FALSE, confidence |-> 10,
          issue |-> <<"Value", value, "doesn't match expected ranges for", metric>>,
          suggestion |-> "Table cells: 1-1,000M, Main financials: 1,000M+"]

\* dict.get(key, default)
Get(d, key, default) == IF key \in DOMAIN d THEN d[key] ELSE default

-----------------------------------------------------------------------------
(* Chunk content and the regular expressions of metric_patterns             *)
(*                                                                         *)
(* Content is a sequence of tokens, the whitespace-separated words of the  *)
(* text.  Every pattern is compiled with re.IGNORECASE, so a word token is *)
(* the case-folded word.  A line break is the token NL.  A number token is *)
(* a literal of the shape [\d,]+(\.\d+)?: a number, or a comma that stands *)
(* alone in the text.                                                      *)
(* A pattern is a sequence of items, each the translation of one piece of  *)
(* the regular expression:                                                 *)
(*   W(S)       a word of S (a literal of the pattern, or an alternation)  *)
(*   Opt(S)     (?:...)? : a word of S, or nothing; greedy                 *)
(*   Ws         \s+ or \s* : blanks, which may include line breaks        *)
(*   NoDigit(n) [^\d]{0,n} ([^\d]* is n = 0): tokens without a digit,       *)
(*              greedy.  The bound n counts characters; content of a few   *)
(*              tokens never reaches 100, so the matcher does not use it.  *)
(*   Lazy       .*? : any tokens but a line break, as few as possible      *)
(*   LazyAny    [\s\S]{1,200}? : any tokens, as few as possible            *)
(*   Num        ([\d,]+(?:\.\d+)?) : a number token, captured              *)
(*   NumMillion (\d[\d,.]*\s*million) : a number and "million", captured   *)
(*   Num3       (\d{3}\.\d) : a number token of that shape, captured       *)
(***************************************************************************)

\* the characters of the number tokens of the model
Spelling ==
    ("5,120" :> <<"5", ",", "1", "2", "0">>) @@
    ("5.1" :> <<"5", ".", "1">>) @@
    ("850" :> <<"8", "5", "0">>) @@
    ("1.2" :> <<"1", ".", "2">>) @@
    ("50,000" :> <<"5", "0", ",", "0", "0", "0">>) @@
    ("450,000" :> <<"4", "5", "0", ",", "0", "0", "0">>) @@
    ("350,000" :> <<"3", "5", "0", ",", "0", "0", "0">>) @@
    ("100,000" :> <<"1", "0", "0", ",", "0", "0", "0">>) @@
    ("0" :> <<"0">>) @@
    ("2022" :> <<"2", "0", "2", "2">>) @@
    ("450.1" :> <<"4", "5", "0", ".", "1">>) @@
    ("460.2" :> <<"4", "6", "0", ".", "2">>) @@
    ("470.3" :> <<"4", "7", "0", ".", "3">>) @@
    ("480.4" :> <<"4", "8", "0", ".", "4">>) @@
    ("490.5" :> <<"4", "9", "0", ".", "5">>) @@
    ("," :> <<",">>)

NumberTokens == DOMAIN Spelling
IsNumber(tok) == tok \in NumberTokens
Chars(tok) == IF tok = "million" THEN Str_million ELSE Spelling[tok]

\* \d matches a character of the token
HasDigit(tok) ==
    \/ IsNumber(tok) /\ \E i \in 1..Len(Spelling[tok]) : IsDigit(Spelling[tok][i])
    \/ tok = "'000"

\* the token has the shape \d{3}\.\d
IsNum3(tok) ==
    /\ IsNumber(tok)
    /\ Len(Chars(tok)) = 5
    /\ \A i \in {1, 2, 3, 5} : IsDigit(Chars(tok)[i])
    /\ Chars(tok)[4] = "."

W(S) == [k |-> "word", s |-> S]
Opt(S) == [k |-> "opt", s |-> S]
Ws == [k |-> "ws", s |-> {}]
NoDigit(n) == [k |-> "nodigit", s |-> {n}]
Lazy == [k |-> "lazy", s |-> {}]
LazyAny == [k |-> "lazyany", s |-> {}]
Num == [k |-> "num", s |-> {}]
NumMillion == [k |-> "nummillion", s |-> {}]
Num3 == [k |-> "num3", s |-> {}]

NoMatch == [ok |-> FALSE, cap |-> <<>>, capAt |-> 0, end |-> 0]

\* The backtracking match of items k.. of pattern p against the tokens of t
\* from index i: the first match in the order the re module tries them.
\* cap and capAt are group 1 and the index of the token it was captured at
\* (0 while nothing is captured).
RECURSIVE MatchFrom(_, _, _, _, _, _), TryUp(_, _, _, _, _, _, _), TryDown(_, _, _, _, _, _, _)
MatchFrom(p, k, t, i, cap, capAt) ==
    IF k > Len(p) THEN [ok |-> TRUE, cap |-> cap, capAt |-> capAt, end |-> i]
    ELSE LET item == p[k]
             here == i <= Len(t)
             first(c) == IF capAt = 0 THEN c ELSE cap
             firstAt == IF capAt = 0 THEN i ELSE capAt
         IN CASE item.k = "word" ->
                   IF here /\ t[i] \in item.s
                   THEN MatchFrom(p, k + 1, t, i + 1, cap, capAt) ELSE NoMatch
              [] item.k = "opt" ->
                   LET taken == IF here /\ t[i] \in item.s
                                THEN MatchFrom(p, k + 1, t, i + 1, cap, capAt) ELSE NoMatch
                   IN IF taken.ok THEN taken ELSE MatchFrom(p, k + 1, t, i, cap, capAt)
              [] item.k = "num" ->
                   IF here /\ IsNumber(t[i])
                   THEN MatchFrom(p, k + 1, t, i + 1, first(Chars(t[i])), firstAt) ELSE NoMatch
              [] item.k = "num3" ->
                   IF here /\ IsNum3(t[i])
                   THEN MatchFrom(p, k + 1, t, i + 1, first(Chars(t[i])), firstAt) ELSE NoMatch
              [] item.k = "nummillion" ->
                   IF i + 1 <= Len(t) /\ IsNumber(t[i]) /\ IsDigit(Chars(t[i])[1])
                      /\ t[i + 1] = "million"
                   THEN MatchFrom(p, k + 1, t, i + 2,
                                  first(Chars(t[i]) \o <<" ">> \o Chars(t[i + 1])), firstAt)
                   ELSE NoMatch
              [] item.k \in {"lazy", "lazyany"} -> TryUp(p, k, t, i, i, cap, capAt)
              [] item.k \in {"ws", "nodigit"} ->
                   LET fits(tok) == IF item.k = "ws" THEN tok = "NL" ELSE ~HasDigit(tok)
                       run == {j \in i..(Len(t) + 1) : \A m \in i..(j - 1) : fits(t[m])}
                       top == CHOOSE j \in run : \A j2 \in run : j2 <= j
                   IN TryDown(p, k, t, i, top, cap, capAt)

\* a lazy gap from i: the shortest gap after which the rest matches
TryUp(p, k, t, i, j, cap, capAt) ==
    IF j > Len(t) + 1 THEN NoMatch
    ELSE LET rest == MatchFrom(p, k + 1, t, j, cap, capAt)
         IN IF rest.ok THEN rest
            ELSE IF j <= Len(t) /\ (p[k].k = "lazyany" \/ t[j] # "NL")
                 THEN TryUp(p, k, t, i, j + 1, cap, capAt)
            ELSE NoMatch

\* a greedy gap from i: the longest gap, at most up to j, after which the rest matches
TryDown(p, k, t, i, j, cap, capAt) ==
    LET rest == MatchFrom(p, k + 1, t, j, cap, capAt)
    IN IF rest.ok THEN rest
       ELSE IF j > i THEN TryDown(p, k, t, i, j - 1, cap, capAt)
       ELSE NoMatch

\* re.finditer(pattern, content) from token index pos: the matches from left
\* to right, none overlapping another
RECURSIVE FindAll(_, _, _)
FindAll(p, t, pos) ==
    LET starts == {i \in pos..Len(t) : MatchFrom(p, 1, t, i, <<>>, 0).ok}
    IN IF starts = {} THEN <<>>
       ELSE LET i == CHOOSE x \in starts : \A y \in starts : x <= y
                m == MatchFrom(p, 1, t, i, <<>>, 0)
            IN <<m>> \o FindAll(p, t, IF m.end > i THEN m.end ELSE i + 1)

-----------------------------------------------------------------------------
(* metric_patterns (lines 82-156), pattern by pattern in the order of the   *)
(* source.  The dict keeps insertion order, which MetricOrder records.     *)

\* literal words joined by \s+
S(words) == [i \in 1..(2 * Len(words) - 1) |->
                IF i % 2 = 1 THEN W({words[(i + 1) \div 2]}) ELSE Ws]
\* literal words joined by one blank
L(words) == [i \in 1..Len(words) |-> W({words[i]})]

PeriodOrYear == <<Ws, W({"period", "year"})>>          \* \s+(?:period|year)
AedNum == <<W({"aed"}), Ws, Num>>                      \* AED\s*([\d,]+(?:\.\d+)?)
MillionOrThousands == <<Ws, W({"million", "'000"})>>   \* \s*(?:million|'000)
BillionOrBn == <<Ws, W({"billion", "bn"})>>            \* \s*(?:billion|bn)
OptMillionBn == <<Ws, Opt({"million", "bn", "billion"})>>  \* \s*(?:million|bn|billion)?
Shareholders == W({"shareholders", "shareholders'"})

ProfitForThe == S(<<"profit", "for", "the">>) \o PeriodOrYear
NetProfitForThe == S(<<"net", "profit", "for", "the">>) \o PeriodOrYear
ProfitAfterTax == S(<<"profit", "after", "tax">>)

net_profit_patterns ==
    << ProfitForThe \o <<NoDigit(200)>> \o AedNum \o MillionOrThousands,
       NetProfitForThe \o <<NoDigit(200)>> \o AedNum \o MillionOrThousands,
       ProfitAfterTax \o <<NoDigit(200)>> \o AedNum \o MillionOrThousands,
       <<W({"profit"}), Lazy, Num>> \o BillionOrBn \o <<Ws, W({"aed"})>>,
       L(<<"net", "profit">>) \o <<Lazy, Num>> \o BillionOrBn,
       ProfitForThe \o <<NoDigit(100)>> \o AedNum \o MillionOrThousands,
       NetProfitForThe \o <<NoDigit(100)>> \o AedNum \o MillionOrThousands,
       ProfitAfterTax \o <<NoDigit(100)>> \o AedNum \o MillionOrThousands,
       <<W({"profit"}), Lazy, Num>> \o BillionOrBn,
       ProfitForThe \o <<NoDigit(0)>> \o AedNum \o MillionOrThousands,
       NetProfitForThe \o <<NoDigit(0)>> \o AedNum \o MillionOrThousands,
       ProfitAfterTax \o <<NoDigit(0)>> \o AedNum \o MillionOrThousands,
       S(<<"profit", "for", "the", "period">>) \o <<LazyAny>> \o AedNum \o MillionOrThousands,
       S(<<"net", "profit">>) \o <<LazyAny>> \o AedNum \o MillionOrThousands,
       L(<<"net", "profit">>) \o <<Lazy>> \o AedNum \o OptMillionBn,
       L(<<"net", "profit">>) \o <<Lazy, NumMillion>> >>

shareholder_equity_patterns ==
    << S(<<"total", "equity">>) \o <<NoDigit(200)>> \o AedNum \o MillionOrThousands,
       <<Shareholders, Lazy, W({"equity"}), Lazy, Num>> \o BillionOrBn,
       S(<<"total", "equity">>) \o <<NoDigit(0)>> \o AedNum \o MillionOrThousands,
       <<Shareholders, Ws, W({"equity"}), NoDigit(0)>> \o AedNum \o MillionOrThousands,
       <<W({"equity"}), NoDigit(0)>> \o AedNum \o MillionOrThousands,
       <<W({"total"}), Ws, Shareholders, Ws, W({"equity"}), NoDigit(0)>>
           \o AedNum \o MillionOrThousands,
       <<W({"equity"}), LazyAny>> \o AedNum \o MillionOrThousands,
       <<W({"equity"}), Lazy, W({"aed"})>> \o MillionOrThousands
           \o <<Lazy, W({"NL"}), Ws, Num>>,
       <<W({"equity"}), Lazy>> \o AedNum \o OptMillionBn >>

total_assets_patterns ==
    << S(<<"total", "assets">>) \o <<NoDigit(200)>> \o AedNum \o MillionOrThousands,
       L(<<"total", "assets">>) \o <<Lazy, Num>> \o BillionOrBn \o <<Ws, W({"aed"})>>,
       S(<<"total", "assets">>) \o <<NoDigit(100)>> \o AedNum \o MillionOrThousands,
       S(<<"total", "assets">>) \o <<Lazy, Num>> \o BillionOrBn,
       S(<<"total", "assets">>) \o <<NoDigit(0)>> \o AedNum \o MillionOrThousands,
       S(<<"assets", "total">>) \o <<NoDigit(0)>> \o AedNum \o MillionOrThousands,
       S(<<"total", "assets">>) \o <<LazyAny>> \o AedNum \o MillionOrThousands,
       L(<<"total", "assets">>) \o <<Lazy, Num, Ws, W({"trillion"})>>,
       L(<<"total", "assets">>) \o <<Lazy>> \o AedNum
           \o <<Ws, Opt({"million", "bn", "billion", "trillion"})>> >>

total_loans_patterns ==
    << S(<<"total", "loans">>) \o <<NoDigit(200)>> \o AedNum \o MillionOrThousands,
       L(<<"loans", "and", "advances">>) \o <<Lazy, Num>> \o BillionOrBn,
       S(<<"loans", "and", "advances">>) \o <<NoDigit(0)>> \o AedNum \o MillionOrThousands,
       S(<<"total", "loans">>) \o <<NoDigit(0)>> \o AedNum \o MillionOrThousands,
       S(<<"net", "loans">>) \o <<NoDigit(0)>> \o AedNum \o MillionOrThousands,
       <<W({"loans"}), Lazy>> \o AedNum \o OptMillionBn,
       <<W({"loans"}), Lazy, Num, Ws, W({"million", "bn", "billion"})>>,
       L(<<"total", "loans">>) \o <<Lazy>> \o AedNum >>

total_deposits_patterns ==
    << S(<<"total", "deposits">>) \o <<NoDigit(200)>> \o AedNum \o MillionOrThousands,
       L(<<"customer", "deposits">>) \o <<Lazy, Num>> \o BillionOrBn,
       S(<<"customer", "deposits">>) \o <<NoDigit(0)>> \o AedNum \o MillionOrThousands,
       S(<<"total", "deposits">>) \o <<NoDigit(0)>> \o AedNum \o MillionOrThousands,
       <<W({"deposits"}), NoDigit(0)>> \o AedNum \o MillionOrThousands,
       L(<<"customer", "deposits">>) \o <<Lazy, Num3, Ws, Num3, Ws, Num3, Ws, Num3, Ws, Num3>>,
       <<W({"deposits"}), Lazy>> \o AedNum,
       <<W({"deposits"}), Lazy, Num, Ws, W({"million", "bn", "billion"})>> >>

metric_patterns ==
    [net_profit |-> net_profit_patterns,
     shareholder_equity |-> shareholder_equity_patterns,
     total_assets |-> total_assets_patterns,
     total_loans |-> total_loans_patterns,
     total_deposits |-> total_deposits_patterns]

\* the order of metric_patterns.items()
MetricOrder == <<"net_profit", "shareholder_equity", "total_assets", "total_loans", "total_deposits">>

UnitWords == {"million", "billion", "bn", "trillion", "'000"}

\* The candidates of the three nested loops of lines 254-258, in order: for
\* each metric, for each pattern, for each match, the metric and group 1
\* (value_str).  literal and unit record the number token the group came
\* from and the unit word the text states after it ("" when none); the
\* program does not keep them.
RECURSIVE Flatten(_)
Flatten(ss) == IF ss = <<>> THEN <<>> ELSE Head(ss) \o Flatten(Tail(ss))

PatternCandidates(metric_name, idx, content) ==
    LET found == FindAll(metric_patterns[metric_name][idx], content, 1)
    IN [j \in 1..Len(found) |->
          [metric_name |-> metric_name,
           pattern |-> idx,
           value_str |-> found[j].cap,
           literal |-> content[found[j].capAt],
           unit |-> LET n == IF found[j].capAt < Len(content) /\ content[found[j].capAt + 1] = "NL"
                             THEN found[j].capAt + 2 ELSE found[j].capAt + 1
                    IN IF n <= Len(content) /\ content[n] \in UnitWords
                       THEN content[n] ELSE ""]]

TextCandidates(content) ==
    Flatten([m \in 1..Len(MetricOrder) |->
        Flatten([idx \in 1..Len(metric_patterns[MetricOrder[m]]) |->
            PatternCandidates(MetricOrder[m], idx, content)])])

-----------------------------------------------------------------------------
(* The variables a specification does not use keep these values. *)

ExtractIdle ==
    /\ search_results = <<>> /\ ci = 0 /\ cleaned_metadata = None /\ period = ""
    /\ todo = <<>> /\ metrics = <<>> /\ data_points = <<>> /\ log = <<>>
GroupIdle == group_input = <<>> /\ gi = 0 /\ grouped = <<>>
ValidateIdle == v_metric = None /\ v_value = None /\ v_result = None
ConvertIdle == n_input = None /\ n_result = None
CalcIdle == calc_call = None /\ calc_result = None /\ calculation_history = <<>>
TemporalIdle == t_call = None /\ t_result = None
WorkflowIdle == state = None
ToolIdle == CalcIdle /\ TemporalIdle /\ WorkflowIdle

-----------------------------------------------------------------------------
(* validate_extraction as a function call: SpecValidate *)

ModeledMetrics == DOMAIN main_financial_ranges

\* the metrics validate_extraction is called with: the modeled ones and one
\* member of FinancialMetric that has no band
ValidateMetrics == ModeledMetrics \cup {"return_on_equity"}

\* midpoint of the main-financial band, in thousandths
Midpoint(metric) == 500 * (main_financial_ranges[metric][1] + main_financial_ranges[metric][2])

\* the values validate_extraction is called with (thousandths): every band
\* edge and midpoint, the table-cell threshold, each with its two neighbours,
\* and a zero, a negative and some interior values
ValidateValues ==
    LET points == UNION {{table_cell_ranges[m][1] * Milli, table_cell_ranges[m][2] * Milli,
                          main_financial_ranges[m][1] * Milli, main_financial_ranges[m][2] * Milli,
                          Midpoint(m)} : m \in ModeledMetrics}
    IN UNION {{x - 1, x, x + 1} : x \in points}
       \cup {0, -5 * Milli, 500, 5100, 500 * Milli, 5120 * Milli, 90000 * Milli, 700000 * Milli}

InitValidate ==
    /\ pc = "validate"
    /\ v_metric \in ValidateMetrics
    /\ v_value \in ValidateValues
    /\ v_result = None
    /\ ExtractIdle /\ GroupIdle /\ ConvertIdle /\ ToolIdle

Validate ==
    /\ pc = "validate"
    /\ v_result' = validate_extraction(v_metric, v_value)
    /\ pc' = "validated"
    /\ UNCHANGED <<v_metric, v_value, extractVars, groupVars, convertVars, toolVars>>

NextValidate == Validate

SpecValidate == InitValidate /\ [][NextValidate]_vars

-----------------------------------------------------------------------------
(* _convert_to_numeric as a function call: SpecConvert *)

\* numeric literals as the patterns capture them
Literals ==
    {<<"5", ",", "1", "2", "0">>, <<"5", ".", "1">>, <<"1", ".", "2">>,
     <<"8", "5", "0">>, <<"1", ",", "5", "0", "0", ".", "5">>, <<"5", "1", "2", "0", ".", "0">>,
     <<"0">>, <<"0", ".", "5">>, <<"2">>, <<"4", "5", "0">>, <<"1", "2">>, <<"9", "9", "9">>}

\* what follows the literal in the raw string
UnitSuffixes ==
    {<<>>, <<" ">> \o Str_million, <<" ">> \o Str_billion, <<" ">> \o Str_bn, Str_bn,
     <<" ", "B", "N">>, <<" ", "B", "i", "l", "l", "i", "o", "n">>,
     <<" ">> \o Str_trillion, Str_thousands, <<" ">> \o Str_thousands}

\* number of digits of the integer part of a literal
IntDigits(lit) ==
    LET c == Cleaned(lit)
    IN IF Points(c) = {} THEN Len(c) ELSE (CHOOSE i \in Points(c) : TRUE) - 1

\* the raw strings whose value fits the integers of the model checker and is
\* exact in thousandths
Fits(lit, suffix) ==
    IF Contains(Lower(suffix), Str_trillion)
    THEN IntDigits(lit) <= 1 /\ FloatMilli(Cleaned(lit)) <= 2 * Milli
    ELSE IF Contains(Lower(suffix), Str_billion) \/ Contains(Lower(suffix), Str_bn)
         THEN IntDigits(lit) <= 3
    ELSE IF Contains(suffix, Str_thousands) THEN Points(lit) = {} /\ Len(Cleaned(lit)) <= 3
    ELSE TRUE

ConvertInputs ==
    {[literal |-> l, suffix |-> u] : l \in Literals, u \in UnitSuffixes}

InitConvert ==
    /\ pc = "convert"
    /\ n_input \in {x \in ConvertInputs : Fits(x.literal, x.suffix)}
    /\ n_result = None
    /\ ExtractIdle /\ GroupIdle /\ ValidateIdle /\ ToolIdle

Convert ==
    /\ pc = "convert"
    /\ n_result' = convert_to_numeric(n_input.literal \o n_input.suffix)
    /\ pc' = "converted"
    /\ UNCHANGED <<n_input, extractVars, groupVars, validateVars, toolVars>>

NextConvert == Convert

SpecConvert == InitConvert /\ [][NextConvert]_vars

-----------------------------------------------------------------------------
(* Python values of the chunk metadata *)

PyInt(n) == [t |-> "int", v |-> n]
PyStr(chars) == [t |-> "str", v |-> chars]

\* str.isdigit()
IsDigitStr(chars) == chars # <<>> /\ \A i \in 1..Len(chars) : IsDigit(chars[i])

\* int(x) raises ValueError
IntRaises(x) == x.t = "str" /\ ~IsDigitStr(x.v)
\* int(x) when it does not raise
IntOf(x) == IF x.t = "int" THEN x.v ELSE DigitsToInt(x.v)

\* models/schemas.py: the values of the enums
QuarterValues == {"Q1", "Q2", "Q3", "Q4", "Annual"}
DocumentTypeValues == {"financial_statement", "earnings_presentation", "results_call", "annual_report"}
FinancialMetricValues ==
    {"net_profit", "net_interest_income", "total_assets", "total_loans", "total_deposits",
     "shareholder_equity", "return_on_equity", "return_on_assets", "net_interest_margin",
     "loan_to_deposit_ratio", "cost_of_risk", "npl_ratio"}

\* _clean_pages_value (lines 390-396); an absent key arrives as None
clean_pages_value(pages_value) ==
    IF pages_value = None THEN None
    ELSE IF pages_value.t = "str" /\ pages_value.v = <<>> THEN None
    ELSE IF pages_value.t = "str" /\ IsDigitStr(pages_value.v) THEN PyInt(DigitsToInt(pages_value.v))
    ELSE pages_value

\* lines 228-240 raise: int() of the year, Quarter() or DocumentType() fails
CleanRaises(raw_metadata) ==
    \/ IntRaises(Get(raw_metadata, "year", PyInt(2022)))
    \/ Get(raw_metadata, "quarter", "Q1") \notin QuarterValues
    \/ Get(raw_metadata, "document_type", "financial_statement") \notin DocumentTypeValues

\* lines 228-240: the cleaned metadata (the fields the pipeline reads)
CleanMetadata(raw_metadata) ==
    [year |-> IntOf(Get(raw_metadata, "year", PyInt(2022))),
     quarter |-> Get(raw_metadata, "quarter", "Q1"),
     document_type |-> Get(raw_metadata, "document_type", "financial_statement"),
     pages |-> clean_pages_value(Get(raw_metadata, "pages", None))]

\* lines 242-245: the period key of the text path
TextPeriod(md) ==
    IF md.quarter = "Annual"
    THEN ToString(md.year) \o "_Annual"
    ELSE ToString(md.year) \o "_" \o md.quarter

\* The mutant of TablePeriod that formats every period as a quarter of its own.
TablePeriod_QuarterOnly(md) ==
    ToString(md.year) \o "_" \o (IF md.quarter = "Annual" THEN "Q4" ELSE md.quarter)

\* line 307: the period key of the table path
TablePeriod(md) == ToString(md.year) \o "_" \o md.quarter

\* DocumentMetadata(**cleaned_metadata) raises: pages is not an Optional[int]
MetadataRaises(md) == md.pages # None /\ md.pages.t # "int"

\* FinancialDataPoint(...) raises (schemas.py lines 55-62 and the two
\* constructors inside it): the metric is no FinancialMetric, the metadata is
\* rejected, or the confidence is outside [0, 1]
DataPointRaises(metric_name, md, confidence) ==
    \/ metric_name \notin FinancialMetricValues
    \/ MetadataRaises(md)
    \/ confidence < 0 \/ confidence > 100

Max(a, b) == IF a >= b THEN a ELSE b

\* one line of the diagnostics the pipeline prints
LogLine(event, metric, value, detail) ==
    [event |-> event, metric |-> metric, value |-> value, detail |-> detail]

-----------------------------------------------------------------------------
(* The chunks the vector store returns *)

ContentNetProfit == <<"net", "profit", "for", "the", "period", "ended", "aed", "5,120", "million">>
ContentBillion == <<"net", "profit", "5.1", "billion">>
ContentThousands == <<"net", "profit", "for", "the", "year", "aed", "850", "'000">>
ContentTrillion == <<"total", "assets", "aed", "1.2", "trillion">>
ContentRejected == <<"total", "equity", "aed", "50,000", "million",
                     "total", "deposits", "aed", "450,000", "million">>
ContentColumns == <<"customer", "deposits", "450.1", "460.2", "470.3", "480.4", "490.5">>
ContentZero == <<"net", "profit", "aed", "0", "million">>
ContentNoMetric == <<"risk", "management", "overview">>
ContentNextLine == <<"equity", "aed", "million", "NL", "100,000">>
ContentLoans == <<"total", "loans", "aed", "350,000", "million">>
ContentNoDigits == <<"total", "loans", "aed", ",", "million",
                     "total", "loans", "aed", "350,000", "million">>

Contents ==
    {ContentNetProfit, ContentBillion, ContentThousands, ContentTrillion,
     ContentRejected, ContentColumns, ContentZero, ContentNoMetric, ContentNextLine, ContentLoans,
     ContentNoDigits}

MetaQ1 == [year |-> PyInt(2022), quarter |-> "Q1"]
MetaQ3 == [year |-> PyInt(2023), quarter |-> "Q3", document_type |-> "earnings_presentation"]
MetaAnnual == [year |-> PyStr(<<"2", "0", "2", "3">>), quarter |-> "Annual",
               document_type |-> "annual_report"]
MetaPages == [year |-> PyInt(2023), quarter |-> "Q4", pages |-> PyStr(<<"1", "2">>)]
MetaNoPages == [year |-> PyInt(2022), quarter |-> "Q2", pages |-> PyStr(<<>>)]
MetaPageRange == [year |-> PyInt(2022), quarter |-> "Q1",
                  pages |-> PyStr(<<"1", "2", "-", "1", "5">>)]
MetaNoYear == [quarter |-> "Q2"]
MetaNoQuarter == [year |-> PyInt(2023)]
MetaQ5 == [year |-> PyInt(2023), quarter |-> "Q5"]
MetaBadYear == [year |-> PyStr(<<"F", "Y", "2", "3">>), quarter |-> "Q1"]
MetaBadType == [year |-> PyInt(2022), quarter |-> "Q1", document_type |-> "press_release"]

\* extracted_metrics of the document parser, in insertion order: the value
\* in thousandths, the confidence in hundredths
TableNone == <<>>
TableMain == <<[name |-> "net_profit", info |-> [value |-> 5000 * Milli, confidence |-> 90, source |-> "table"]]>>
TableCell == <<[name |-> "total_assets", info |-> [value |-> 5000 * Milli]]>>
TableRejected ==
    <<[name |-> "shareholder_equity", info |-> [value |-> 50000 * Milli, confidence |-> 95]],
      [name |-> "total_deposits", info |-> [value |-> 450000 * Milli, confidence |-> 50]]>>
TableNegative == <<[name |-> "total_loans", info |-> [value |-> -350 * Milli, confidence |-> 80]]>>
TableUnmodeled == <<[name |-> "return_on_equity", info |-> [value |-> -5 * Milli, confidence |-> 80]]>>
TableNoValue == <<[name |-> "npl_ratio", info |-> [confidence |-> 60]]>>
TableOverConfident == <<[name |-> "net_profit", info |-> [value |-> 850 * Milli, confidence |-> 150]]>>
TableUnderConfident == <<[name |-> "cost_of_risk", info |-> [value |-> 2 * Milli, confidence |-> -10]]>>
TableUnknownMetric == <<[name |-> "operating_income", info |-> [value |-> 7000 * Milli, confidence |-> 80]]>>

Chunk(content, metadata, extracted_metrics) ==
    [content |-> content, metadata |-> metadata, extracted_metrics |-> extracted_metrics]

\* Every content with plain metadata and no table; then raw metadata in
\* every form (a year as an int or as a string, each kind of quarter, keys
\* absent, values outside the enums, pages as the parser stores them) and
\* tables in every form (valid, rejected, negative, unmodeled metric, keys
\* absent, confidence outside [0, 1], a metric outside the enum).
Chunks ==
    {Chunk(c, MetaQ1, TableNone) : c \in Contents}
    \cup {Chunk(ContentBillion, MetaQ3, TableMain),
          Chunk(ContentLoans, MetaAnnual, TableRejected),
          Chunk(ContentBillion, MetaPages, TableCell),
          Chunk(ContentNoMetric, MetaNoPages, TableNegative),
          Chunk(ContentBillion, MetaPageRange, TableMain),
          Chunk(ContentBillion, MetaNoYear, TableUnmodeled),
          Chunk(ContentNoMetric, MetaNoQuarter, TableNoValue),
          Chunk(ContentBillion, MetaQ5, TableMain),
          Chunk(ContentLoans, MetaBadYear, TableNone),
          Chunk(ContentLoans, MetaBadType, TableNone),
          Chunk(ContentNetProfit, MetaQ1, TableMain),
          Chunk(ContentNoMetric, MetaQ1, TableOverConfident),
          Chunk(ContentNoMetric, MetaQ1, TableUnderConfident),
          Chunk(ContentZero, MetaQ1, TableUnknownMetric)}

\* the longest list of search results
MaxChunks == 2

SearchResults == UNION {[1..n -> Chunks] : n \in 1..MaxChunks}

-----------------------------------------------------------------------------
(* extract_data and _extract_metrics_from_chunk: Spec *)

DataPoint(metric, value, p, md, confidence, origin) ==
    [metric |-> metric, value |-> value, period |-> p, metadata |-> md,
     confidence |-> confidence, origin |-> origin]

Init ==
    /\ pc = "loop"
    /\ search_results \in SearchResults
    /\ ci = 1
    /\ cleaned_metadata = None
    /\ period = ""
    /\ todo = <<>>
    /\ metrics = <<>>
    /\ data_points = <<>>
    /\ log = <<>>
    /\ GroupIdle /\ ValidateIdle /\ ConvertIdle /\ ToolIdle

\* The mutant of EnterChunk without the try of lines 198-203: the exception
\* of a chunk ends extract_data and the data points collected are lost.
EnterChunk_Uncaught ==
    /\ pc = "loop"
    /\ ci <= Len(search_results)
    /\ LET chunk == search_results[ci]
       IN IF CleanRaises(chunk.metadata)
          THEN /\ log' = Append(log, LogLine("chunk_failed", "", ci, <<>>))
               /\ ci' = ci + 1
               /\ pc' = "extracted"
               /\ data_points' = <<>>
               /\ UNCHANGED <<cleaned_metadata, period, todo, metrics>>
          ELSE /\ cleaned_metadata' = CleanMetadata(chunk.metadata)
               /\ period' = TextPeriod(CleanMetadata(chunk.metadata))
               /\ metrics' = <<>>
               /\ IF chunk.extracted_metrics # <<>>
                  THEN pc' = "table" /\ todo' = chunk.extracted_metrics
                  ELSE pc' = "text" /\ todo' = TextCandidates(chunk.content)
               /\ UNCHANGED <<ci, log, data_points>>
    /\ UNCHANGED <<search_results, groupVars, validateVars, convertVars, toolVars>>

\* lines 196-199 and 223-252: the loop of extract_data takes the next chunk,
\* and _extract_metrics_from_chunk cleans its metadata; an exception of the
\* cleaning leaves the function and is caught at line 201
EnterChunk ==
    /\ pc = "loop"
    /\ ci <= Len(search_results)
    /\ LET chunk == search_results[ci]
       IN IF CleanRaises(chunk.metadata)
          THEN /\ log' = Append(log, LogLine("chunk_failed", "", ci, <<>>))
               /\ ci' = ci + 1
               /\ UNCHANGED <<pc, cleaned_metadata, period, todo, metrics>>
          ELSE /\ cleaned_metadata' = CleanMetadata(chunk.metadata)
               /\ period' = TextPeriod(CleanMetadata(chunk.metadata))
               /\ metrics' = <<>>
               /\ IF chunk.extracted_metrics # <<>>
                  THEN pc' = "table" /\ todo' = chunk.extracted_metrics
                  ELSE pc' = "text" /\ todo' = TextCandidates(chunk.content)
               /\ UNCHANGED <<ci, log>>
    /\ UNCHANGED <<search_results, data_points, groupVars, validateVars, convertVars, toolVars>>

\* _extract_metrics_from_table_data, one turn of the loop of lines 291-318
TableStep ==
    /\ pc = "table"
    /\ todo # <<>>
    /\ LET metric_name == Head(todo).name
           metric_info == Head(todo).info
           value == Get(metric_info, "value", 0)
           confidence == Get(metric_info, "confidence", 80)
           validation == validate_extraction(metric_name, value)
           final_confidence == Max(Get(validation, "confidence", 70), confidence)
           origin == [path |-> "table", literal |-> "", unit |-> "", pattern |-> 0]
       IN IF validation.is_valid
          THEN IF DataPointRaises(metric_name, cleaned_metadata, final_confidence)
               THEN /\ log' = Append(log, LogLine("table_failed", metric_name, value, <<>>))
                    /\ UNCHANGED metrics
               ELSE /\ metrics' = Append(metrics,
                            DataPoint(metric_name, value, TablePeriod(cleaned_metadata),
                                      cleaned_metadata, final_confidence, origin))
                    /\ log' = Append(log, LogLine("table_extracted", metric_name, value, <<>>))
          ELSE /\ log' = Append(log, LogLine("table_rejected", metric_name, value,
                                             Get(validation, "issue", <<>>)))
               /\ UNCHANGED metrics
    /\ todo' = Tail(todo)
    /\ UNCHANGED <<pc, search_results, ci, cleaned_metadata, period, data_points,
                   groupVars, validateVars, convertVars, toolVars>>

\* lines 250-256: the table metrics are in, the text patterns are run
TableDone ==
    /\ pc = "table"
    /\ todo = <<>>
    /\ log' = Append(log, LogLine("table_count", "", Len(metrics), <<>>))
    /\ pc' = "text"
    /\ todo' = TextCandidates(search_results[ci].content)
    /\ UNCHANGED <<search_results, ci, cleaned_metadata, period, metrics, data_points,
                   groupVars, validateVars, convertVars, toolVars>>

\* one turn of the innermost loop of lines 257-283
TextStep ==
    /\ pc = "text"
    /\ todo # <<>>
    /\ LET metric_name == Head(todo).metric_name
           value_str == Head(todo).value_str
           numeric_value == convert_to_numeric(value_str)
           validation == validate_extraction(metric_name, numeric_value)
           confidence == Get(validation, "confidence", 70)
           origin == [path |-> "text", literal |-> Head(todo).literal,
                      unit |-> Head(todo).unit, pattern |-> Head(todo).pattern]
       IN IF numeric_value # 0 /\ numeric_value > 0
          THEN IF validation.is_valid
               THEN IF DataPointRaises(metric_name, cleaned_metadata, confidence)
                    THEN /\ log' = Append(log, LogLine("failed", metric_name, numeric_value, <<>>))
                         /\ UNCHANGED metrics
                    ELSE /\ metrics' = Append(metrics,
                                 DataPoint(metric_name, numeric_value, period,
                                           cleaned_metadata, confidence, origin))
                         /\ log' = Append(log, LogLine("extracted", metric_name, numeric_value, <<>>))
               ELSE /\ log' = Append(log, LogLine("rejected", metric_name, numeric_value,
                                                  Get(validation, "issue", <<>>)))
                    /\ UNCHANGED metrics
          ELSE UNCHANGED <<metrics, log>>
    /\ todo' = Tail(todo)
    /\ UNCHANGED <<pc, search_results, ci, cleaned_metadata, period, data_points,
                   groupVars, validateVars, convertVars, toolVars>>

\* lines 285 and 200: the chunk's metrics are returned and extend data_points
ReturnMetrics ==
    /\ pc = "text"
    /\ todo = <<>>
    /\ data_points' = data_points \o metrics
    /\ ci' = ci + 1
    /\ pc' = "loop"
    /\ UNCHANGED <<search_results, cleaned_metadata, period, todo, metrics, log,
                   groupVars, validateVars, convertVars, toolVars>>

\* line 219: extract_data returns data_points
ReturnDataPoints ==
    /\ pc = "loop"
    /\ ci > Len(search_results)
    /\ pc' = "extracted"
    /\ UNCHANGED <<extractVars, groupVars, validateVars, convertVars, toolVars>>

-----------------------------------------------------------------------------
(* _group_data_by_period (CalculationAgent and TemporalAnalysisAgent) *)

\* line 36-40: grouped[period][metric] = value
GroupPut(g, dp) ==
    IF dp.period \notin DOMAIN g
    THEN (dp.period :> (dp.metric :> dp.value)) @@ g
    ELSE [g EXCEPT ![dp.period] = (dp.metric :> dp.value) @@ @]

\* perform_calculations line 14: the extracted data points are grouped
BeginGroup ==
    /\ pc = "extracted"
    /\ group_input' = data_points
    /\ gi' = 1
    /\ grouped' = <<>>
    /\ pc' = "group"
    /\ UNCHANGED <<extractVars, validateVars, convertVars, toolVars>>

\* one turn of the loop of lines 35-40
GroupStep ==
    /\ pc = "group"
    /\ gi <= Len(group_input)
    /\ grouped' = GroupPut(grouped, group_input[gi])
    /\ gi' = gi + 1
    /\ UNCHANGED <<pc, group_input, extractVars, validateVars, convertVars, toolVars>>

\* line 42: return grouped
GroupReturn ==
    /\ pc = "group"
    /\ gi > Len(group_input)
    /\ pc' = "grouped"
    /\ UNCHANGED <<extractVars, groupVars, validateVars, convertVars, toolVars>>

Next ==
    \/ EnterChunk
    \/ TableStep
    \/ TableDone
    \/ TextStep
    \/ ReturnMetrics
    \/ ReturnDataPoints
    \/ BeginGroup
    \/ GroupStep
    \/ GroupReturn

Spec == Init /\ [][Next]_vars

-----------------------------------------------------------------------------
(* _group_data_by_period as a function call: SpecGroup *)

\* the longest list of data points handed to the aggregator
MaxPoints == 3

GroupPoints ==
    {[metric |-> m, value |-> vc[1] * Milli, period |-> p, confidence |-> vc[2]] :
        m \in {"net_profit", "total_assets"},
        p \in {"2022_Q1", "2023_Q1"},
        vc \in {<<5000, 60>>, <<5120, 80>>, <<5200, 80>>}}

InitGroup ==
    /\ pc = "group"
    /\ group_input \in UNION {[1..n -> GroupPoints] : n \in 0..MaxPoints}
    /\ gi = 1
    /\ grouped = <<>>
    /\ ExtractIdle /\ ValidateIdle /\ ConvertIdle /\ ToolIdle

NextGroup == GroupStep \/ GroupReturn

SpecGroup == InitGroup /\ [][NextGroup]_vars

-----------------------------------------------------------------------------
(* Claims on validate_extraction, under SpecValidate *)

\* validate_extraction with the two band tests in the other order
ValidateMainFirst(metric, value) ==
    IF metric \notin DOMAIN main_financial_ranges
    THEN [is_valid |-> TRUE, confidence |-> 70]
    ELSE IF InMainBand(metric, value)
    THEN [is_valid |-> TRUE, confidence |-> MainConfidence(metric, value),
          value_type |-> "main_financial"]
    ELSE IF InTableBand(metric, value)
    THEN [is_valid |-> TRUE, confidence |-> TableConfidence(value),
          note |-> <<"Table cell value", value>>, value_type |-> "table_cell"]
    ELSE [is_valid |-> FALSE, confidence |-> 10,
          issue |-> <<"Value", value, "doesn't match expected ranges for", metric>>,
          suggestion |-> "Table cells: 1-1,000M, Main financials: 1,000M+"]

\* C4: for every modeled metric no value lies in both the table-cell band and
\* the main-financial band, so the classification of a value does not depend
\* on the order in which the two bands are tested.
C4_BandsDisjoint ==
    (pc = "validated" /\ v_metric \in ModeledMetrics) =>
        /\ ~(InTableBand(v_metric, v_value) /\ InMainBand(v_metric, v_value))
        /\ Get(v_result, "value_type", "") = Get(ValidateMainFirst(v_metric, v_value), "value_type", "")

AtMainEdge ==
    \/ v_value = main_financial_ranges[v_metric][1] * Milli
    \/ v_value = main_financial_ranges[v_metric][2] * Milli

\* C5 (as claimed): for every metric with bands, the confidence is 1.0 at the
\* midpoint of the main-financial band and 0.7 at either edge of it.
C5_EdgeIsSeventy ==
    (pc = "validated" /\ v_metric \in ModeledMetrics) =>
        /\ v_value = Midpoint(v_metric) => v_result.confidence = 100
        /\ AtMainEdge => v_result.confidence = 70

\* C5 (amended): for every metric with bands, the confidence is 1.0 at the
\* midpoint of the main-financial band; at either edge it is 0.7 for every
\* metric but shareholder_equity, whose two edges give 0.8.
C5_EdgeConfidence ==
    (pc = "validated" /\ v_metric \in ModeledMetrics) =>
        /\ v_value = Midpoint(v_metric) => v_result.confidence = 100
        /\ AtMainEdge =>
              v_result.confidence = IF v_metric = "shareholder_equity" THEN 80 ELSE 70

\* a main-financial edge has been validated with a confidence above the floor
C5_Witness ==
    /\ pc = "validated"
    /\ v_metric = "shareholder_equity"
    /\ v_value = 120000 * Milli
    /\ v_result.value_type = "main_financial"
    /\ v_result.confidence = 80

\* C6: a value of a modeled metric inside the table-cell band is valid, of
\* type table_cell, with confidence 0.7 up to 1,000 and 0.6 above it; no
\* table_cell result has a confidence above 0.7.
C6_TableCellConfidence ==
    (pc = "validated" /\ v_metric \in ModeledMetrics) =>
        /\ (table_cell_ranges[v_metric][1] * Milli <= v_value
              /\ v_value <= table_cell_ranges[v_metric][2] * Milli) =>
                /\ v_result.is_valid
                /\ Get(v_result, "value_type", "") = "table_cell"
                /\ v_result.confidence = IF v_value <= 1000 * Milli THEN 70 ELSE 60
        /\ Get(v_result, "value_type", "") = "table_cell" => v_result.confidence <= 70

\* a table-cell value above 1,000 has been validated
C6_Witness ==
    /\ pc = "validated"
    /\ v_metric = "total_assets"
    /\ v_value = 1000 * Milli + 1
    /\ v_result.is_valid
    /\ v_result.value_type = "table_cell"
    /\ v_result.confidence = 60

-----------------------------------------------------------------------------
(* Claims on _convert_to_numeric, under SpecConvert *)

\* the value of the numeric literal of the raw string, in thousandths
LiteralMilli(literal) == FloatMilli(Cleaned(literal))

\* C10: the normalizer returns the literal times 1,000,000 for 'trillion',
\* times 1,000 for 'billion' or 'bn', divided by 1,000 for a "'000" marker,
\* and the literal itself for 'million' or no unit word (so a value that is
\* in millions already comes back unchanged).
C10_ScaleByUnit ==
    pc = "converted" =>
        n_result =
            IF Contains(Lower(n_input.suffix), Str_trillion)
            THEN LiteralMilli(n_input.literal) * 1000000
            ELSE IF Contains(Lower(n_input.suffix), Str_billion)
                    \/ Contains(Lower(n_input.suffix), Str_bn)
            THEN LiteralMilli(n_input.literal) * 1000
            ELSE IF Contains(n_input.suffix, Str_thousands)
            THEN LiteralMilli(n_input.literal) \div 1000
            ELSE LiteralMilli(n_input.literal)

-----------------------------------------------------------------------------
(* Claims on _group_data_by_period, under SpecGroup *)

\* the indices of the data points of a (period, metric) pair
PairIndices(p, m) ==
    {i \in 1..Len(group_input) : group_input[i].period = p /\ group_input[i].metric = m}

\* the data point the policy of the claim keeps: the highest confidence, and
\* among equal confidences the one added last
Kept(p, m) ==
    CHOOSE i \in PairIndices(p, m) :
        \A j \in PairIndices(p, m) :
            \/ group_input[j].confidence < group_input[i].confidence
            \/ (group_input[j].confidence = group_input[i].confidence /\ j <= i)

\* C1: after grouping, the value stored for each (period, metric) pair is the
\* value of the data point with the highest confidence among those of the
\* pair, and among equal confidences of the one added last.
C1_HighestConfidenceKept ==
    pc = "grouped" =>
        \A p \in DOMAIN grouped : \A m \in DOMAIN grouped[p] :
            grouped[p][m] = group_input[Kept(p, m)].value

-----------------------------------------------------------------------------
(* Claims on the extraction pipeline, under Spec *)

\* the millions a phrase states: the literal scaled by the unit word after it
StatedMillions(literal, unit) ==
    LET l == FloatMilli(Cleaned(Chars(literal)))
    IN CASE unit \in {"billion", "bn"} -> l * 1000
         [] unit = "trillion" -> l * 1000000
         [] unit = "'000" -> l \div 1000
         [] OTHER -> l

\* C2: every value the text path hands to the validator, and every value it
\* stores in a data point, is in millions: the captured literal times 1,000
\* when the phrase says billion or bn, times 1,000,000 when it says trillion,
\* divided by 1,000 when it says '000.
C2_StoredInMillions ==
    /\ (pc = "text" /\ todo # <<>>) =>
          convert_to_numeric(Head(todo).value_str)
              = StatedMillions(Head(todo).literal, Head(todo).unit)
    /\ \A i \in 1..Len(metrics) :
          metrics[i].origin.path = "text" =>
              metrics[i].value = StatedMillions(metrics[i].origin.literal, metrics[i].origin.unit)

\* the chunk whose metrics are complete: the text loop has run out
ChunkDone == pc = "text" /\ todo = <<>>

NumbersIn(content) == {i \in 1..Len(content) : IsNumber(content[i])}

\* C3: the chunk "Net profit for the period ended AED 5,120 million" of 2022
\* Q1 with no table metrics yields exactly one data point, net_profit 5120.0
\* for 2022_Q1 with confidence at least 0.7; and a chunk that mentions a
\* single figure yields at most one data point for a metric.
C3_OneMentionOnePoint ==
    ChunkDone =>
        LET chunk == search_results[ci]
        IN /\ (chunk.content = ContentNetProfit /\ chunk.metadata = MetaQ1
                 /\ chunk.extracted_metrics = <<>>) =>
                  /\ Len(metrics) = 1
                  /\ metrics[1].metric = "net_profit"
                  /\ metrics[1].value = 5120 * Milli
                  /\ metrics[1].period = "2022_Q1"
                  /\ metrics[1].confidence >= 70
           /\ (chunk.extracted_metrics = <<>> /\ Cardinality(NumbersIn(chunk.content)) = 1) =>
                  \A m \in FinancialMetricValues :
                      Cardinality({i \in 1..Len(metrics) : metrics[i].metric = m}) <= 1

OutsideBothBands(metric, value) ==
    /\ ~(table_cell_ranges[metric][1] * Milli <= value
           /\ value <= table_cell_ranges[metric][2] * Milli)
    /\ ~(main_financial_ranges[metric][1] * Milli <= value
           /\ value <= main_financial_ranges[metric][2] * Milli)

Rejects(validation) ==
    /\ validation.is_valid = FALSE
    /\ validation.confidence = 10
    /\ "issue" \in DOMAIN validation

\* the text candidates and the table entries of a chunk that end as data
\* points when every candidate of the chunk is processed
TextAccepted(chunk, md) ==
    LET cands == TextCandidates(chunk.content)
    IN {j \in 1..Len(cands) :
          LET v == convert_to_numeric(cands[j].value_str)
              r == validate_extraction(cands[j].metric_name, v)
          IN v > 0 /\ r.is_valid /\ ~DataPointRaises(cands[j].metric_name, md, r.confidence)}
TableAccepted(chunk, md) ==
    LET rows == chunk.extracted_metrics
    IN {j \in 1..Len(rows) :
          LET r == validate_extraction(rows[j].name, Get(rows[j].info, "value", 0))
          IN r.is_valid /\ ~DataPointRaises(rows[j].name, md,
                               Max(r.confidence, Get(rows[j].info, "confidence", 80)))}

FromPath(path) == {i \in 1..Len(metrics) : metrics[i].origin.path = path}

\* C7: a candidate of a modeled metric whose value is outside both bands is
\* validated as invalid with confidence 0.1 and an issue, on the text path
\* and on the table path; no data point holds such a value; every rejection
\* is logged with its issue; and a rejection stops nothing: when the chunk is
\* done, every other candidate of the chunk has its data point.
C7_RejectionIsLocal ==
    /\ (pc = "text" /\ todo # <<>>) =>
          LET m == Head(todo).metric_name
              v == convert_to_numeric(Head(todo).value_str)
          IN (v > 0 /\ m \in ModeledMetrics /\ OutsideBothBands(m, v)) =>
                 Rejects(validate_extraction(m, v))
    /\ (pc = "table" /\ todo # <<>>) =>
          LET m == Head(todo).name
              v == Get(Head(todo).info, "value", 0)
          IN (m \in ModeledMetrics /\ OutsideBothBands(m, v)) =>
                 Rejects(validate_extraction(m, v))
    /\ \A i \in 1..Len(metrics) :
          metrics[i].metric \in ModeledMetrics =>
              ~OutsideBothBands(metrics[i].metric, metrics[i].value)
    /\ \A i \in 1..Len(data_points) :
          data_points[i].metric \in ModeledMetrics =>
              ~OutsideBothBands(data_points[i].metric, data_points[i].value)
    /\ \A i \in 1..Len(log) :
          log[i].event \in {"rejected", "table_rejected"} =>
              /\ log[i].detail # <<>>
              /\ OutsideBothBands(log[i].metric, log[i].value)
    /\ ChunkDone =>
          /\ Cardinality(FromPath("text"))
                = Cardinality(TextAccepted(search_results[ci], cleaned_metadata))
          /\ Cardinality(FromPath("table"))
                = Cardinality(TableAccepted(search_results[ci], cleaned_metadata))

\* both paths have rejected a candidate and then stored a later one of the
\* same chunk
C7_Witness ==
    /\ pc = "extracted"
    /\ search_results = <<Chunk(ContentLoans, MetaAnnual, TableRejected),
                          Chunk(ContentRejected, MetaQ1, TableNone)>>
    /\ \E i, j \in 1..Len(log) :
          i < j /\ log[i].event = "table_rejected" /\ log[j].event = "table_extracted"
    /\ \E i, j \in 1..Len(log) :
          i < j /\ log[i].event = "rejected" /\ log[j].event = "extracted"
             /\ log[i].metric = "shareholder_equity" /\ log[j].metric = "total_deposits"
    /\ \E i \in 1..Len(data_points) : data_points[i].origin.path = "table"
    /\ \E i \in 1..Len(data_points) :
          data_points[i].origin.path = "text" /\ data_points[i].metric = "total_deposits"

\* C8: every data point of the extractor, from the text and from the table
\* path, has a value above 0 and a confidence from 0 to 1.
C8_PositiveValueUnitConfidence ==
    \A i \in 1..Len(metrics) :
        /\ metrics[i].value > 0
        /\ 0 <= metrics[i].confidence /\ metrics[i].confidence <= 100

\* C9: every data point has the period key "{year}_Annual" when the quarter
\* of its metadata is Annual and "{year}_{Qn}" otherwise, for the year and
\* the quarter of its own metadata, and the data points of one chunk, from
\* the table and from the text, have the same key.
C9_PeriodKey ==
    /\ \A dp \in {metrics[i] : i \in 1..Len(metrics)} \cup {data_points[i] : i \in 1..Len(data_points)} :
          /\ dp.metadata.quarter \in QuarterValues
          /\ dp.period = IF dp.metadata.quarter = "Annual"
                         THEN ToString(dp.metadata.year) \o "_Annual"
                         ELSE ToString(dp.metadata.year) \o "_" \o dp.metadata.quarter
    /\ \A i, j \in 1..Len(metrics) : metrics[i].period = metrics[j].period

\* a chunk of an annual report has a data point of each path
C9_Witness ==
    /\ ChunkDone
    /\ FromPath("table") # {}
    /\ FromPath("text") # {}
    /\ \A i \in 1..Len(metrics) :
          metrics[i].period = "2023_Annual" /\ metrics[i].metadata.quarter = "Annual"

-----------------------------------------------------------------------------
(* Claims C11: the sentinel of _convert_to_numeric, under Spec *)

\* strings that hold no number: empty, blank, no digit, a lone point,
\* several points, a unit word alone
NotANumber ==
    {<<>>, <<" ">>, <<"a", "b", "c">>, <<"A", "E", "D">>, <<".">>, <<".", ".">>,
     <<"1", ".", "2", ".", "3">>, <<",">>, <<"-">>, <<"1", ".", "2", ".">>,
     <<" ">> \o Str_billion, <<".", " ">> \o Str_trillion, <<"A", "E", "D", ".">>}

NoDigitIn(s) == \A i \in 1..Len(s) : ~IsDigit(s[i])

SkippedCandidate == pc = "text" /\ todo # <<>> /\ NoDigitIn(Head(todo).value_str)

\* C11: _convert_to_numeric returns 0.0 for an empty string, a string with
\* no digit and a string whose cleaned form is no number; a text candidate
\* whose captured literal has no digit converts to 0.0, adds no data point,
\* and the loop goes on with the candidates that remain.
C11_SentinelAndSkip ==
    /\ [](\A x \in NotANumber : convert_to_numeric(x) = 0)
    /\ [](SkippedCandidate => convert_to_numeric(Head(todo).value_str) = 0)
    /\ [][SkippedCandidate =>
             /\ metrics' = metrics
             /\ data_points' = data_points
             /\ todo' = Tail(todo)
             /\ pc' = "text"]_vars

\* a literal without a digit was skipped and a later match of the chunk has
\* its data point
C11_Witness ==
    /\ ChunkDone
    /\ search_results[ci].content = ContentNoDigits
    /\ LET c == TextCandidates(ContentNoDigits)
       IN \E j, k \in 1..Len(c) :
             /\ j < k
             /\ c[j].value_str = <<",">>
             /\ \E i \in 1..Len(metrics) :
                   /\ metrics[i].origin.pattern = c[k].pattern
                   /\ metrics[i].metric = c[k].metric_name
                   /\ metrics[i].origin.literal = "350,000"

-----------------------------------------------------------------------------
(* FinancialCalculator (tools/calculator.py): SpecCalc                     *)
(*                                                                         *)
(* The arguments are integers.  A quotient the program computes in floats  *)
(* is held exactly, as a fraction <<numerator, denominator>> in lowest     *)
(* terms with a positive denominator; float rounding is left out.          *)
(***************************************************************************)

RECURSIVE GCD(_, _)
GCD(a, b) == IF b = 0 THEN a ELSE GCD(b, a % b)

\* the fraction n / d, d # 0
Rat(n, d) ==
    LET g == GCD(Abs(n), Abs(d))
        sign == IF d < 0 THEN -1 ELSE 1
    IN <<(sign * n) \div g, (sign * d) \div g>>

RatAdd(x, y) == Rat(x[1] * y[2] + y[1] * x[2], x[2] * y[2])

\* sum(list) of fractions
RECURSIVE RatSum(_)
RatSum(list) == IF list = <<>> THEN Rat(0, 1) ELSE RatAdd(Head(list), RatSum(Tail(list)))

\* sum(list) / len(list)
Mean(list) == LET total == RatSum(list) IN Rat(total[1], total[2] * Len(list))

\* The mutant of IndexOf that finds the last occurrence.
IndexOf_Last(list, x) ==
    CHOOSE i \in 1..Len(list) : list[i] = x /\ \A j \in (i + 1)..Len(list) : list[j] # x

\* list.index(x), counted from 1
IndexOf(list, x) == CHOOSE i \in 1..Len(list) : list[i] = x /\ \A j \in 1..(i - 1) : list[j] # x

\* min(list) and max(list)
MinOf(list) == CHOOSE v \in {list[i] : i \in 1..Len(list)} : \A i \in 1..Len(list) : v <= list[i]
MaxOf(list) == CHOOSE v \in {list[i] : i \in 1..Len(list)} : \A i \in 1..Len(list) : v >= list[i]

\* lines 9-23
calculate_percentage_change(old_value, new_value) ==
    IF old_value = 0
    THEN [error |-> "Cannot calculate percentage change from zero"]
    ELSE [old_value |-> old_value,
          new_value |-> new_value,
          absolute_change |-> new_value - old_value,
          percentage_change |-> Rat((new_value - old_value) * 100, old_value),
          calculation_type |-> "percentage_change"]

\* The mutant of calculate_roe that returns the ratio, not the percentage.
calculate_roe_Fraction(net_income, shareholder_equity) ==
    IF shareholder_equity = 0
    THEN [error |-> "Cannot calculate ROE with zero equity"]
    ELSE [net_income |-> net_income,
          shareholder_equity |-> shareholder_equity,
          roe_percentage |-> Rat(net_income, shareholder_equity),
          calculation_type |-> "roe"]

\* lines 28-40
calculate_roe(net_income, shareholder_equity) ==
    IF shareholder_equity = 0
    THEN [error |-> "Cannot calculate ROE with zero equity"]
    ELSE [net_income |-> net_income,
          shareholder_equity |-> shareholder_equity,
          roe_percentage |-> Rat(net_income * 100, shareholder_equity),
          calculation_type |-> "roe"]

\* lines 45-57
calculate_loan_to_deposit(total_loans, total_deposits) ==
    IF total_deposits = 0
    THEN [error |-> "Cannot calculate LDR with zero deposits"]
    ELSE [total_loans |-> total_loans,
          total_deposits |-> total_deposits,
          ldr_percentage |-> Rat(total_loans * 100, total_deposits),
          calculation_type |-> "loan_to_deposit_ratio"]

\* lines 62-74
calculate_nim(net_interest_income, earning_assets) ==
    IF earning_assets = 0
    THEN [error |-> "Cannot calculate NIM with zero earning assets"]
    ELSE [net_interest_income |-> net_interest_income,
          earning_assets |-> earning_assets,
          nim_percentage |-> Rat(net_interest_income * 100, earning_assets),
          calculation_type |-> "net_interest_margin"]

\* The mutant of GrowthRates that measures each step against the first value.
GrowthRates_FromFirst(values) ==
    [i \in 1..(Len(values) - 1) |->
        IF values[1] # 0
        THEN Rat((values[i + 1] - values[1]) * 100, values[1])
        ELSE Rat(0, 1)]

\* lines 92-95: entry i is the growth of values[i] (Python, from 0) over
\* values[i-1], for i = 1..len - 1
GrowthRates(values) ==
    [i \in 1..(Len(values) - 1) |->
        IF values[i] # 0
        THEN Rat((values[i + 1] - values[i]) * 100, values[i])
        ELSE Rat(0, 1)]

\* The mutant of calculate_trend that takes a single value for a series.
calculate_trend_FromOne(values, periods) ==
    IF Len(values) < 1
    THEN [error |-> "Need at least 2 values for trend analysis"]
    ELSE LET min_val == MinOf(values)
             max_val == MaxOf(values)
             growth_rates == GrowthRates(values)
         IN [periods |-> periods,
             values |-> values,
             mean |-> Mean([i \in 1..Len(values) |-> Rat(values[i], 1)]),
             min_value |-> min_val,
             min_period |-> periods[IndexOf(values, min_val)],
             max_value |-> max_val,
             max_period |-> periods[IndexOf(values, max_val)],
             growth_rates |-> growth_rates,
             average_growth |-> IF growth_rates # <<>> THEN Mean(growth_rates) ELSE Rat(0, 1),
             calculation_type |-> "trend_analysis"]

\* lines 79-108
calculate_trend(values, periods) ==
    IF Len(values) < 2
    THEN [error |-> "Need at least 2 values for trend analysis"]
    ELSE LET min_val == MinOf(values)
             max_val == MaxOf(values)
             growth_rates == GrowthRates(values)
         IN [periods |-> periods,
             values |-> values,
             mean |-> Mean([i \in 1..Len(values) |-> Rat(values[i], 1)]),
             min_value |-> min_val,
             min_period |-> periods[IndexOf(values, min_val)],
             max_value |-> max_val,
             max_period |-> periods[IndexOf(values, max_val)],
             growth_rates |-> growth_rates,
             average_growth |-> IF growth_rates # <<>> THEN Mean(growth_rates) ELSE Rat(0, 1),
             calculation_type |-> "trend_analysis"]

\* the values the calculator is called with
CalcValues == {-50, 0, 100, 150, 200}

\* the longest series handed to calculate_trend
MaxValues == 3

\* the periods of a series: the callers build periods in step with values
PeriodNames == <<"2022_Q1", "2022_Q2", "2022_Q3", "2022_Q4", "2023_Q1">>

CalcCalls ==
    {[op |-> op, a |-> a, b |-> b] :
        op \in {"calculate_percentage_change", "calculate_roe",
                "calculate_loan_to_deposit", "calculate_nim"},
        a \in CalcValues, b \in CalcValues}
    \cup {[op |-> "calculate_trend", values |-> v, periods |-> SubSeq(PeriodNames, 1, Len(v))] :
            v \in UNION {[1..n -> CalcValues] : n \in 0..MaxValues}}

InitCalc ==
    /\ pc = "calc"
    /\ calc_call \in CalcCalls
    /\ calc_result = None
    /\ calculation_history = <<>>
    /\ ExtractIdle /\ GroupIdle /\ ValidateIdle /\ ConvertIdle /\ TemporalIdle
    /\ WorkflowIdle

\* the end of every operation: an error variant is returned at once, any
\* other result is appended to the history and returned
Returns(op, result) ==
    /\ pc = "calc"
    /\ calc_call.op = op
    /\ calc_result' = result
    /\ calculation_history' = IF "error" \in DOMAIN result
                              THEN calculation_history
                              ELSE Append(calculation_history, result)
    /\ pc' = "calc_done"
    /\ UNCHANGED <<calc_call, extractVars, groupVars, validateVars, convertVars,
                   temporalVars, workflowVars>>

CalculatePercentageChange ==
    /\ calc_call.op = "calculate_percentage_change"
    /\ Returns("calculate_percentage_change", calculate_percentage_change(calc_call.a, calc_call.b))

CalculateRoe ==
    /\ calc_call.op = "calculate_roe"
    /\ Returns("calculate_roe", calculate_roe(calc_call.a, calc_call.b))

CalculateLoanToDeposit ==
    /\ calc_call.op = "calculate_loan_to_deposit"
    /\ Returns("calculate_loan_to_deposit", calculate_loan_to_deposit(calc_call.a, calc_call.b))

CalculateNim ==
    /\ calc_call.op = "calculate_nim"
    /\ Returns("calculate_nim", calculate_nim(calc_call.a, calc_call.b))

CalculateTrend ==
    /\ calc_call.op = "calculate_trend"
    /\ Returns("calculate_trend", calculate_trend(calc_call.values, calc_call.periods))

NextCalc ==
    \/ CalculatePercentageChange
    \/ CalculateRoe
    \/ CalculateLoanToDeposit
    \/ CalculateNim
    \/ CalculateTrend

SpecCalc == InitCalc /\ [][NextCalc]_vars

-----------------------------------------------------------------------------
(* Claims C12-C16 on the FinancialCalculator, under SpecCalc *)

RatioOps == {"calculate_percentage_change", "calculate_roe",
             "calculate_loan_to_deposit", "calculate_nim"}

Returned(ops) == pc = "calc_done" /\ calc_call.op \in ops

\* what an operation divides, what it divides by, where the quotient goes
Numerator == IF calc_call.op = "calculate_percentage_change"
             THEN calc_call.b - calc_call.a ELSE calc_call.a
Denominator == IF calc_call.op = "calculate_percentage_change" THEN calc_call.a ELSE calc_call.b
Percentage ==
    CASE calc_call.op = "calculate_percentage_change" -> calc_result.percentage_change
      [] calc_call.op = "calculate_roe" -> calc_result.roe_percentage
      [] calc_call.op = "calculate_loan_to_deposit" -> calc_result.ldr_percentage
      [] calc_call.op = "calculate_nim" -> calc_result.nim_percentage

IsErrorVariant(result) == DOMAIN result = {"error"}

\* C12: percentage change from old_value 0, and ROE, loan-to-deposit and NIM
\* with a zero denominator, return the error variant: an 'error' message
\* and nothing else; with a non-zero denominator the result is numeric and
\* its percentage is numerator / denominator x 100.
C12_ZeroDenominator ==
    Returned(RatioOps) =>
        IF Denominator = 0
        THEN IsErrorVariant(calc_result)
        ELSE /\ "error" \notin DOMAIN calc_result
             /\ Percentage[1] * Denominator = Numerator * 100 * Percentage[2]

\* a percentage change from 0 to 100 has returned the error variant
C12_Witness ==
    /\ Returned({"calculate_percentage_change"})
    /\ calc_call.a = 0 /\ calc_call.b = 100
    /\ IsErrorVariant(calc_result)

TrendValues == calc_call.values

\* C13: calculate_trend with zero or one value returns the error variant
\* and no statistics; with two or more values it returns a trend result.
C13_TrendNeedsTwo ==
    Returned({"calculate_trend"}) =>
        IF Len(TrendValues) < 2
        THEN IsErrorVariant(calc_result) /\ calculation_history = <<>>
        ELSE /\ "error" \notin DOMAIN calc_result
             /\ calc_result.calculation_type = "trend_analysis"
             /\ {"mean", "min_value", "max_value", "growth_rates", "average_growth"}
                   \subseteq DOMAIN calc_result

\* a series of one value was refused
C13_Witness ==
    /\ Returned({"calculate_trend"})
    /\ Len(TrendValues) = 1
    /\ IsErrorVariant(calc_result)

TrendReturned == Returned({"calculate_trend"}) /\ Len(TrendValues) >= 2

\* the period is the one of the first index that holds the value
FirstPeriodOf(value, p) ==
    \E k \in 1..Len(TrendValues) :
        /\ calc_call.periods[k] = p
        /\ TrendValues[k] = value
        /\ \A j \in 1..(k - 1) : TrendValues[j] # value

\* C14: for parallel lists of two or more entries min_value and max_value
\* are the least and the greatest value, and min_period and max_period are
\* the periods of their first occurrence; for [100, 200, 150] that is the
\* first and the second period.
C14_ExtremaFirstOccurrence ==
    TrendReturned =>
        /\ \A i \in 1..Len(TrendValues) :
              calc_result.min_value <= TrendValues[i] /\ TrendValues[i] <= calc_result.max_value
        /\ FirstPeriodOf(calc_result.min_value, calc_result.min_period)
        /\ FirstPeriodOf(calc_result.max_value, calc_result.max_period)
        /\ TrendValues = <<100, 200, 150>> =>
              calc_result.max_period = "2022_Q2" /\ calc_result.min_period = "2022_Q1"

\* the greatest value occurs twice and the first period is reported
C14_Witness ==
    /\ TrendReturned
    /\ TrendValues = <<100, 200, 200>>
    /\ calc_result.max_period = "2022_Q2"
    /\ calc_result.min_period = "2022_Q1"

\* the numerators of a list of fractions over the product of the denominators
RECURSIVE DenProduct(_), NumSum(_, _)
DenProduct(list) == IF list = <<>> THEN 1 ELSE Head(list)[2] * DenProduct(Tail(list))
NumSum(list, den) ==
    IF list = <<>> THEN 0
    ELSE Head(list)[1] * (den \div Head(list)[2]) + NumSum(Tail(list), den)

\* C15: growth_rates has len(values) - 1 entries, entry i is
\* (values[i] - values[i-1]) / values[i-1] x 100, or 0 when values[i-1] is 0,
\* and average_growth is the arithmetic mean of the entries: 37.5 for
\* [100, 200, 150].
C15_GrowthRates ==
    TrendReturned =>
        LET g == calc_result.growth_rates
            avg == calc_result.average_growth
            den == DenProduct(g)
        IN /\ Len(g) = Len(TrendValues) - 1
           /\ \A i \in 1..Len(g) :
                 IF TrendValues[i] = 0
                 THEN g[i][1] = 0
                 ELSE g[i][1] * TrendValues[i] = (TrendValues[i + 1] - TrendValues[i]) * 100 * g[i][2]
           /\ avg[1] * den * Len(g) = NumSum(g, den) * avg[2]
           /\ TrendValues = <<100, 200, 150>> =>
                 g = <<<<100, 1>>, <<-25, 1>>>> /\ avg = <<75, 2>>

\* a step from 0 counted as 0 and the later step was still computed
C15_Witness ==
    /\ TrendReturned
    /\ TrendValues = <<100, 0, 150>>
    /\ calc_result.growth_rates = <<<<-100, 1>>, <<0, 1>>>>
    /\ calc_result.average_growth = <<-50, 1>>

\* the tag of each operation
TagOf ==
    [calculate_percentage_change |-> "percentage_change",
     calculate_roe |-> "roe",
     calculate_loan_to_deposit |-> "loan_to_deposit_ratio",
     calculate_nim |-> "net_interest_margin",
     calculate_trend |-> "trend_analysis"]

\* C16: a call leaves its arguments as they were and its result carries the
\* calculation_type of the operation, for every input, the inputs that
\* produce an error included.
C16_TaggedAndUnchanged ==
    /\ [][calc_call' = calc_call]_vars
    /\ [](pc = "calc_done" =>
             /\ "calculation_type" \in DOMAIN calc_result
             /\ calc_result.calculation_type = TagOf[calc_call.op])

-----------------------------------------------------------------------------
(* TemporalReasoningTool (tools/temporal_reasoning.py) and the query       *)
(* parsers of the agents: SpecTemporal                                     *)
(*                                                                         *)
(* A query is a sequence of tokens, its words in lower case (every regular *)
(* expression is compiled with re.IGNORECASE) with the punctuation left    *)
(* out, one blank between two words.  Every token is a run of \w.  A year  *)
(* is a token of four digits; no token of the model holds a quarter and a  *)
(* year at once (as "Q12023" would).                                       *)
(***************************************************************************)

\* what an operation raised, when it raised
Raised(exception) == [raised |-> exception]

\* int(token) for the tokens that are digits; int() of any other raises
IntTokens == ("2022" :> 2022) @@ ("2023" :> 2023) @@ ("4" :> 4)
IsYear(tok) == tok \in DOMAIN IntTokens /\ IntTokens[tok] >= 1000

\* Q[1-4], any case
QuarterTokens == {"q1", "q2", "q3", "q4"}

\* token.upper() for the tokens that start with q
UpperQ == ("q1" :> "Q1") @@ ("q2" :> "Q2") @@ ("q3" :> "Q3") @@ ("q4" :> "Q4") @@
          ("q5" :> "Q5") @@ ("q7" :> "Q7") @@ ("quarter" :> "QUARTER") @@
          ("quarters" :> "QUARTERS")

\* the literal 'quarter' of a pattern matches at the start of the token
StartsQuarter(tok) == tok \in {"quarter", "quarters"}

\* lines 18-25: pattern k matches the tokens of t from token i on; Groups
\* is match.groups()
MatchesAt(k, t, i) ==
    CASE k = 1 -> i + 1 <= Len(t) /\ t[i] \in QuarterTokens /\ IsYear(t[i + 1])
      [] k = 2 -> i + 1 <= Len(t) /\ IsYear(t[i]) /\ t[i + 1] \in QuarterTokens
      [] k = 3 -> i + 2 <= Len(t) /\ t[i + 1] = "quarter" /\ IsYear(t[i + 2])
      [] k = 4 -> i + 2 <= Len(t) /\ IsYear(t[i]) /\ StartsQuarter(t[i + 2])
      [] k = 5 -> i + 1 <= Len(t) /\ IsYear(t[i]) /\ t[i + 1] = "annual"
      [] k = 6 -> i + 1 <= Len(t) /\ t[i] = "annual" /\ IsYear(t[i + 1])
Groups(k, t, i) ==
    CASE k \in {1, 2} -> <<t[i], t[i + 1]>>
      [] k = 3 -> <<t[i], t[i + 2]>>
      [] k = 4 -> <<t[i], t[i + 1]>>
      [] k = 5 -> <<t[i]>>
      [] k = 6 -> <<t[i + 1]>>

\* re.search: the leftmost match of pattern k, 0 when there is none
Search(k, t) ==
    LET at == {i \in 1..Len(t) : MatchesAt(k, t, i)}
    IN IF at = {} THEN 0 ELSE CHOOSE i \in at : \A j \in at : i <= j

\* f"{year}_{quarter}" for a Quarter member: the member's value where
\* format() of a str-mixin Enum is the value (Python before 3.11), and
\* "Quarter.Qn", its str(), from 3.11 on
FormatQuarter(year, quarter, str_format) ==
    IF str_format
    THEN ToString(year) \o "_Quarter." \o quarter
    ELSE ToString(year) \o "_" \o quarter

\* The mutant of ParseGroups that takes a quarter it does not know for Q4.
ParseGroups_Coerce(k, groups, str_format) ==
    IF k \in {5, 6}
    THEN LET year == IntTokens[groups[1]]
         IN [year |-> year, quarter |-> "Annual",
             period |-> ToString(year) \o "_Annual", confidence |-> 90]
    ELSE LET first_is_q == groups[1] \in DOMAIN UpperQ
             quarter_str == IF first_is_q THEN groups[1] ELSE groups[2]
             year_str == IF first_is_q THEN groups[2] ELSE groups[1]
             upper == IF quarter_str \in DOMAIN UpperQ THEN UpperQ[quarter_str] ELSE quarter_str
             quarter == IF upper \in QuarterValues \ {"Annual"} THEN upper ELSE "Q4"
         IN IF year_str \notin DOMAIN IntTokens THEN None
            ELSE [year |-> IntTokens[year_str], quarter |-> quarter,
                  period |-> FormatQuarter(IntTokens[year_str], quarter, str_format),
                  confidence |-> 90]

\* lines 30-61: what the groups of a match parse to; None is the 'continue'
\* of the except clauses
ParseGroups(k, groups, str_format) ==
    IF k \in {5, 6}
    THEN LET year == IntTokens[groups[1]]
         IN [year |-> year, quarter |-> "Annual",
             period |-> ToString(year) \o "_Annual", confidence |-> 90]
    ELSE LET first_is_q == groups[1] \in DOMAIN UpperQ
             quarter_str == IF first_is_q THEN groups[1] ELSE groups[2]
             year_str == IF first_is_q THEN groups[2] ELSE groups[1]
             upper == IF quarter_str \in DOMAIN UpperQ THEN UpperQ[quarter_str] ELSE quarter_str
         IN IF year_str \notin DOMAIN IntTokens THEN None
            ELSE IF upper \notin QuarterValues \ {"Annual"} THEN None
            ELSE [year |-> IntTokens[year_str], quarter |-> upper,
                  period |-> FormatQuarter(IntTokens[year_str], upper, str_format),
                  confidence |-> 90]

\* The mutant of TryPatterns that gives up at the first match that does not parse.
RECURSIVE TryPatterns_Break(_, _, _)
TryPatterns_Break(k, t, str_format) ==
    IF k > 6 THEN None
    ELSE IF Search(k, t) = 0 THEN TryPatterns_Break(k + 1, t, str_format)
    ELSE ParseGroups(k, Groups(k, t, Search(k, t)), str_format)

\* lines 27-63: the loop over the patterns, from pattern k on
RECURSIVE TryPatterns(_, _, _)
TryPatterns(k, t, str_format) ==
    IF k > 6 THEN None
    ELSE IF Search(k, t) = 0 THEN TryPatterns(k + 1, t, str_format)
    ELSE LET parsed == ParseGroups(k, Groups(k, t, Search(k, t)), str_format)
         IN IF parsed = None THEN TryPatterns(k + 1, t, str_format) ELSE parsed

parse_period_reference(text, str_format) == TryPatterns(1, text, str_format)

\* TemporalAnalysisAgent._extract_temporal_references (lines 47-70)
extract_temporal_references(query, str_format) ==
    LET primary_ref == parse_period_reference(query, str_format)
        explicit == IF primary_ref # None THEN <<primary_ref>> ELSE <<>>
        has(word) == \E i \in 1..Len(query) : query[i] \in word
        at == {i \in 1..(Len(query) - 2) :
                  /\ query[i] = "last"
                  /\ query[i + 1] \in DOMAIN IntTokens
                  /\ StartsQuarter(query[i + 2])}
    IN IF has({"last"}) /\ has({"quarter", "quarters"}) /\ at # {}
       THEN explicit \o <<[type |-> "relative_quarters",
                           value |-> IntTokens[query[(CHOOSE i \in at : \A j \in at : i <= j) + 1]],
                           direction |-> "past"]>>
       ELSE explicit

\* FinancialDataExtractor._extract_target_periods (lines 326-346): the
\* periods of every match of the first two patterns; list(set(...)) is a
\* list in no particular order, held as the set
extract_target_periods(query) ==
    {ToString(IntTokens[query[i + 1]]) \o "_" \o UpperQ[query[i]] :
        i \in {j \in 1..Len(query) : MatchesAt(1, query, j)}}
    \cup {ToString(IntTokens[query[i]]) \o "_" \o UpperQ[query[i + 1]] :
        i \in {j \in 1..Len(query) : MatchesAt(2, query, j)}}

\* The mutant of get_quarter_difference that counts from q2 to q1.
get_quarter_difference_Swapped(q1, q2) ==
    LET quarter_values == [Q1 |-> 1, Q2 |-> 2, Q3 |-> 3, Q4 |-> 4]
    IN quarter_values[q1] - quarter_values[q2]

\* _get_quarter_difference (lines 121-124), for quarters that are keys of
\* quarter_values
get_quarter_difference(q1, q2) ==
    LET quarter_values == [Q1 |-> 1, Q2 |-> 2, Q3 |-> 3, Q4 |-> 4]
    IN quarter_values[q2] - quarter_values[q1]

\* compare_periods (lines 97-119); quarter_values has no key "Annual"
compare_periods(period1, period2) ==
    LET year1 == period1.year
        quarter1 == period1.quarter
        year2 == period2.year
        quarter2 == period2.quarter
        quarter_diff == get_quarter_difference(quarter1, quarter2)
        year_diff == year2 - year1
        total_quarters_diff == year_diff * 4 + quarter_diff
        later(d) == IF d > 0 THEN "later" ELSE "earlier"
    IN IF "Annual" \in {quarter1, quarter2}
       THEN Raised("KeyError")
       ELSE [period1 |-> period1,
             period2 |-> period2,
             relationship |->
                 IF year1 = year2
                 THEN IF quarter1 = quarter2 THEN "same period"
                      ELSE "same year, " \o ToString(Abs(quarter_diff)) \o " quarter(s) "
                               \o later(quarter_diff)
                 ELSE ToString(Abs(year_diff)) \o " year(s) and "
                          \o ToString(Abs(total_quarters_diff % 4)) \o " quarter(s) "
                          \o later(total_quarters_diff),
             year_difference |-> year2 - year1,
             quarter_difference |-> quarter_diff]

\* the queries
QueryQ5 == <<"what", "was", "net", "profit", "in", "q5", "2023">>
QueryCompare == <<"compare", "q1", "2022", "and", "q1", "2023">>
QuerySkipped == <<"q7", "quarter", "2023", "annual">>
Queries ==
    {QueryQ5, QueryCompare, QuerySkipped,
     <<"fifth", "quarter", "2023">>,
     <<"q7", "quarter", "2023">>,
     <<"q5", "quarter", "2023">>,
     <<"2023", "q5", "quarter">>,
     <<"q3", "quarter", "2022">>,
     <<"net", "profit", "2023", "annual">>,
     <<"annual", "2022", "report">>,
     <<"2023", "q2", "and", "q5", "2023">>,
     <<"last", "4", "quarters", "q5", "2023">>,
     <<"last", "4", "quarters">>,
     <<"last", "quarter">>,
     <<"net", "profit", "trend">>,
     <<"q1", "2022", "and", "2022", "q1">>,
     <<"q1", "2022", "q1", "2022">>,
     <<"2023", "q4">>,
     <<"profit", "in", "2022", "second", "quarter">>,
     <<"2022", "q3", "quarter">>,
     <<"compare", "q1", "2022", "and", "q3", "2023">>,
     <<"2023", "quarter", "2022">>,
     <<"q2", "2023", "annual", "2022">>,
     <<>>}

\* a period as compare_periods takes it
ComparablePeriods == [year : {2022, 2023}, quarter : QuarterValues]

TemporalCalls ==
    {[op |-> op, text |-> q, str_format |-> f] :
        op \in {"parse_period_reference", "_extract_temporal_references"},
        q \in Queries, f \in BOOLEAN}
    \cup {[op |-> "_extract_target_periods", text |-> q] : q \in Queries}
    \cup {[op |-> "compare_periods", period1 |-> p1, period2 |-> p2] :
            p1 \in ComparablePeriods, p2 \in ComparablePeriods}

InitTemporal ==
    /\ pc = "temporal"
    /\ t_call \in TemporalCalls
    /\ t_result = None
    /\ ExtractIdle /\ GroupIdle /\ ValidateIdle /\ ConvertIdle /\ CalcIdle
    /\ WorkflowIdle

TemporalReturns(op, result) ==
    /\ pc = "temporal"
    /\ t_call.op = op
    /\ t_result' = result
    /\ pc' = "temporal_done"
    /\ UNCHANGED <<t_call, extractVars, groupVars, validateVars, convertVars,
                   calcVars, workflowVars>>

ParsePeriodReference ==
    /\ t_call.op = "parse_period_reference"
    /\ TemporalReturns("parse_period_reference",
                       parse_period_reference(t_call.text, t_call.str_format))

ExtractTemporalReferences ==
    /\ t_call.op = "_extract_temporal_references"
    /\ TemporalReturns("_extract_temporal_references",
                       extract_temporal_references(t_call.text, t_call.str_format))

ExtractTargetPeriods ==
    /\ t_call.op = "_extract_target_periods"
    /\ TemporalReturns("_extract_target_periods", extract_target_periods(t_call.text))

ComparePeriods ==
    /\ t_call.op = "compare_periods"
    /\ TemporalReturns("compare_periods", compare_periods(t_call.period1, t_call.period2))

NextTemporal ==
    \/ ParsePeriodReference
    \/ ExtractTemporalReferences
    \/ ExtractTargetPeriods
    \/ ComparePeriods

SpecTemporal == InitTemporal /\ [][NextTemporal]_vars

-----------------------------------------------------------------------------
(* Claims C17-C20 on the temporal parsers, under SpecTemporal *)

TemporalReturned(ops) == pc = "temporal_done" /\ t_call.op \in ops

HasToken(q, toks) == \E i \in 1..Len(q) : q[i] \in toks

\* the only quarter token of the query is outside Q1..Q4, and the query
\* names no annual and no relative period
OnlyInvalidQuarter(q) ==
    /\ HasToken(q, {"q5", "q7"})
    /\ ~HasToken(q, QuarterTokens \cup {"annual", "last"})

Mentioned(q) ==
    {ToString(IntTokens[q[i + 1]]) \o "_" \o UpperQ[q[i]] :
        i \in {j \in 1..(Len(q) - 1) : q[j] \in QuarterTokens /\ IsYear(q[j + 1])}}
    \cup {ToString(IntTokens[q[i]]) \o "_" \o UpperQ[q[i + 1]] :
        i \in {j \in 1..(Len(q) - 1) : IsYear(q[j]) /\ q[j + 1] \in QuarterTokens}}

\* C18: for a query with several quarter+year mentions the temporal
\* references hold every distinct period mentioned, each once; "Compare Q1
\* 2022 and Q1 2023" gives exactly 2022_Q1 and 2023_Q1.
C18_EveryDistinctPeriod ==
    (TemporalReturned({"_extract_temporal_references"})
       /\ Cardinality(Mentioned(t_call.text)) >= 2) =>
        LET explicit == {i \in 1..Len(t_result) : "period" \in DOMAIN t_result[i]}
        IN /\ {t_result[i].period : i \in explicit} = Mentioned(t_call.text)
           /\ Cardinality(explicit) = Cardinality(Mentioned(t_call.text))
           /\ t_call.text = QueryCompare =>
                 {t_result[i].period : i \in explicit} = {"2022_Q1", "2023_Q1"}

\* the patterns that match the query and whose groups are a year and a quarter
Parsing(q, str_format) ==
    {k \in 1..6 : Search(k, q) # 0 /\ ParseGroups(k, Groups(k, q, Search(k, q)), str_format) # None}

\* C19: the parser raises for no query; a pattern that matches groups that
\* are no year and quarter is skipped and the later patterns are tried, so
\* the result is that of the first pattern that parses; when none parses
\* the result is None and, without a relative expression, the list of
\* references is empty.
C19_SkipsUnparseable ==
    /\ TemporalReturned({"parse_period_reference"}) =>
          LET parsing == Parsing(t_call.text, t_call.str_format)
          IN /\ "raised" \notin DOMAIN t_result
             /\ IF parsing = {} THEN t_result = None
                ELSE LET k == CHOOSE x \in parsing : \A y \in parsing : x <= y
                     IN t_result = ParseGroups(k, Groups(k, t_call.text, Search(k, t_call.text)),
                                               t_call.str_format)
    /\ TemporalReturned({"_extract_temporal_references"}) =>
          /\ \A i \in 1..Len(t_result) : "raised" \notin DOMAIN t_result[i]
          /\ (Parsing(t_call.text, t_call.str_format) = {} /\ ~HasToken(t_call.text, {"last"}))
                => t_result = <<>>

\* "Q7 quarter 2023 annual": the third pattern matched and did not parse,
\* the fifth gave the annual period
C19_Witness ==
    /\ TemporalReturned({"parse_period_reference"})
    /\ t_call.text = QuerySkipped
    /\ Search(3, t_call.text) # 0
    /\ t_result # None
    /\ t_result.period = "2023_Annual"

Ordinal == [Q1 |-> 1, Q2 |-> 2, Q3 |-> 3, Q4 |-> 4]

Quarterly(p) == p.quarter \in DOMAIN Ordinal

\* C20: compare_periods on two quarterly periods returns year_difference =
\* year2 - year1 and quarter_difference = ordinal(quarter2) -
\* ordinal(quarter1), both signed, so the call with the arguments swapped
\* returns both negated; (2022 Q1, 2023 Q3) gives 1 and 2.
C20_SignedDifferences ==
    (TemporalReturned({"compare_periods"})
       /\ Quarterly(t_call.period1) /\ Quarterly(t_call.period2)) =>
        LET swapped == compare_periods(t_call.period2, t_call.period1)
        IN /\ t_result.year_difference = t_call.period2.year - t_call.period1.year
           /\ t_result.quarter_difference
                 = Ordinal[t_call.period2.quarter] - Ordinal[t_call.period1.quarter]
           /\ swapped.year_difference = -t_result.year_difference
           /\ swapped.quarter_difference = -t_result.quarter_difference
           /\ (t_call.period1 = [year |-> 2022, quarter |-> "Q1"]
                 /\ t_call.period2 = [year |-> 2023, quarter |-> "Q3"]) =>
                 t_result.year_difference = 1 /\ t_result.quarter_difference = 2

\* the later period first: both differences are negative
C20_Witness ==
    /\ TemporalReturned({"compare_periods"})
    /\ t_call.period1 = [year |-> 2023, quarter |-> "Q3"]
    /\ t_call.period2 = [year |-> 2022, quarter |-> "Q1"]
    /\ t_result.year_difference = -1
    /\ t_result.quarter_difference = -2

-----------------------------------------------------------------------------
(* Claims C21, C28 on compare_periods, under SpecTemporal *)

\* C21: compare_periods with a period whose quarter is Annual, as either
\* argument and also Annual against Annual of one year, returns a result
\* (it does not raise) that carries a relationship and takes no ordinal of
\* Annual.
C21_AnnualNotRaised ==
    (TemporalReturned({"compare_periods"})
       /\ (~Quarterly(t_call.period1) \/ ~Quarterly(t_call.period2))) =>
        /\ "raised" \notin DOMAIN t_result
        /\ "relationship" \in DOMAIN t_result


\* the relationship string of two periods of different years
Relationship(years, quarters, word) ==
    ToString(years) \o " year(s) and " \o ToString(quarters) \o " quarter(s) " \o word

\* C28: for two quarterly periods of different years the relationship
\* "Y year(s) and Q quarter(s) later|earlier" agrees with the numeric
\* distance: 4 * Y + Q is the absolute value of 4 * year_difference +
\* quarter_difference, and the word is "later" exactly when that total is
\* positive; 2022 Q3 to 2023 Q1 is 0 years and 2 quarters later.
C28_RelationshipAgrees ==
    (TemporalReturned({"compare_periods"})
       /\ Quarterly(t_call.period1) /\ Quarterly(t_call.period2)
       /\ t_call.period1.year # t_call.period2.year) =>
        LET total == 4 * t_result.year_difference + t_result.quarter_difference
        IN /\ \E Y \in 0..2, Q \in 0..8, word \in {"later", "earlier"} :
                 /\ t_result.relationship = Relationship(Y, Q, word)
                 /\ 4 * Y + Q = Abs(total)
                 /\ word = "later" <=> total > 0
           /\ (t_call.period1 = [year |-> 2022, quarter |-> "Q3"]
                 /\ t_call.period2 = [year |-> 2023, quarter |-> "Q1"]) =>
                 t_result.relationship = Relationship(0, 2, "later")

-----------------------------------------------------------------------------
(* Claim C22: a failing chunk is dropped alone, under Spec *)

\* the loop of extract_data is at a chunk whose processing raises
FailingChunk ==
    pc = "loop" /\ ci <= Len(search_results) /\ CleanRaises(search_results[ci].metadata)

IsPrefix(s, t) == Len(s) <= Len(t) /\ \A i \in 1..Len(s) : s[i] = t[i]

\* C22: a chunk whose processing fails (a quarter outside the enum, a year
\* that is no number, a document type outside the enum) is dropped alone:
\* the loop goes on with the next chunk and the data points collected so
\* far stay; no step removes a data point; a chunk that completes adds all
\* of its metrics; and extract_data returns only after the last chunk was
\* taken, so no failure ends it early.
C22_FailureDropsOneChunk ==
    /\ [][FailingChunk =>
             /\ data_points' = data_points
             /\ ci' = ci + 1
             /\ pc' = "loop"]_vars
    /\ [][IsPrefix(data_points, data_points') \/ pc \notin {"loop", "table", "text"}]_vars
    /\ [][~(pc = "text" /\ todo = <<>>) \/ data_points' = data_points \o metrics]_vars
    /\ [](pc = "extracted" => ci = Len(search_results) + 1)

\* the first chunk failed and the data points of the second are returned
C22_Witness ==
    /\ pc = "extracted"
    /\ Len(search_results) = 2
    /\ CleanRaises(search_results[1].metadata)
    /\ ~CleanRaises(search_results[2].metadata)
    /\ data_points # <<>>
    /\ \E i \in 1..Len(log) : log[i].event = "chunk_failed" /\ log[i].value = 1

-----------------------------------------------------------------------------
(* CalculationAgent.perform_calculations: SpecAgent *)

\* the keys of data_by_period in the order items() yields them: a dict
\* keeps the order in which its keys were first inserted (line 37-38)
RECURSIVE InsertionOrder(_)
InsertionOrder(points) ==
    IF points = <<>> THEN <<>>
    ELSE LET before == InsertionOrder(SubSeq(points, 1, Len(points) - 1))
             p == points[Len(points)].period
         IN IF \E i \in 1..Len(before) : before[i] = p THEN before ELSE Append(before, p)

\* the place of a period key in the order of str: the year, then "Annual"
\* before "Q1" .. "Q4" ("A" < "Q")
StrRank ==
    [p \in {ToString(y) \o "_" \o q : y \in 2021..2024, q \in QuarterValues} |->
        CHOOSE r \in 1..20 :
            \E y \in 2021..2024, q \in QuarterValues :
                /\ p = ToString(y) \o "_" \o q
                /\ r = (y - 2021) * 5
                       + (CASE q = "Annual" -> 1 [] q = "Q1" -> 2 [] q = "Q2" -> 3
                            [] q = "Q3" -> 4 [] q = "Q4" -> 5)]

\* sorted(data_by_period.items()) (lines 112 and 148), the keys
RECURSIVE SortedKeys(_)
SortedKeys(keys) ==
    IF keys = {} THEN <<>>
    ELSE LET least == CHOOSE k \in keys : \A o \in keys : StrRank[k] <= StrRank[o]
         IN <<least>> \o SortedKeys(keys \ {least})

\* 'word' in query.lower(), for a query given as its lowercase words
InQuery(words, query) ==
    \E i \in 1..(Len(query) - Len(words) + 1) :
        \A j \in 1..Len(words) : query[i + j - 1] = words[j]

LCM(a, b) == (a * b) \div GCD(a, b)

RECURSIVE CommonDenominator(_)
CommonDenominator(ratios) ==
    IF ratios = <<>> THEN 1 ELSE LCM(Head(ratios)[2], CommonDenominator(Tail(ratios)))

\* calculate_trend (lines 79-108) on values that are fractions: min, max and
\* the growth rates are those of the values over their common denominator
TrendOfRatios(ratios, periods) ==
    LET den == CommonDenominator(ratios)
        scaled == [i \in 1..Len(ratios) |-> ratios[i][1] * (den \div ratios[i][2])]
        trend == calculate_trend(scaled, periods)
    IN IF "error" \in DOMAIN trend THEN trend
       ELSE [trend EXCEPT !.values = ratios,
                          !.mean = Rat(@[1], @[2] * den),
                          !.min_value = Rat(@, den),
                          !.max_value = Rat(@, den)]

\* {**result, key: value, ...} (lines 63-67 and alike)
Merged(result, more) == more @@ result

\* the periods that hold both metrics, in the order the loop meets them
WithBoth(g, keys, m1, m2) ==
    SelectSeq(keys, LAMBDA p : m1 \in DOMAIN g[p] /\ m2 \in DOMAIN g[p])

\* lines 56-67 (and 83-93): every result is read for its percentage, the
\* error variant has none and the read raises KeyError; with more than one
\* value the trend is computed
RatioTrend(results, periods, field, name, description) ==
    IF \E i \in 1..Len(results) : field \notin DOMAIN results[i]
    THEN LET first == CHOOSE i \in 1..Len(results) :
                          /\ field \notin DOMAIN results[i]
                          /\ \A j \in 1..(i - 1) : field \in DOMAIN results[j]
         IN [raised |-> TRUE, calculations |-> <<>>, calls |-> SubSeq(results, 1, first)]
    ELSE LET values == [i \in 1..Len(results) |-> results[i][field]]
             trend == TrendOfRatios(values, periods)
         IN [raised |-> FALSE,
             calculations |->
                 results \o (IF Len(values) > 1
                             THEN <<Merged(trend, [metric |-> name, description |-> description])>>
                             ELSE <<>>),
             calls |-> results \o (IF Len(values) > 1 THEN <<trend>> ELSE <<>>)]

\* _calculate_roe_trend (lines 44-69)
calculate_roe_trend(g, keys) ==
    LET periods == WithBoth(g, keys, "net_profit", "shareholder_equity")
        results == [i \in 1..Len(periods) |->
                       calculate_roe(g[periods[i]]["net_profit"],
                                     g[periods[i]]["shareholder_equity"])]
    IN RatioTrend(results, periods, "roe_percentage", "roe_trend",
                  "Return on Equity trend analysis")

\* _calculate_ldr_trend (lines 71-95)
calculate_ldr_trend(g, keys) ==
    LET periods == WithBoth(g, keys, "total_loans", "total_deposits")
        results == [i \in 1..Len(periods) |->
                       calculate_loan_to_deposit(g[periods[i]]["total_loans"],
                                                 g[periods[i]]["total_deposits"])]
    IN RatioTrend(results, periods, "ldr_percentage", "ldr_trend",
                  "Loan-to-Deposit ratio trend analysis")

key_metrics == <<"net_profit", "total_assets", "total_loans", "total_deposits">>

\* metric.replace('_', ' '), as words
MetricWords ==
    [net_profit |-> <<"net", "profit">>, total_assets |-> <<"total", "assets">>,
     total_loans |-> <<"total", "loans">>, total_deposits |-> <<"total", "deposits">>]

\* metric.replace('_', ' ').title()
MetricTitle ==
    [net_profit |-> "Net Profit", total_assets |-> "Total Assets",
     total_loans |-> "Total Loans", total_deposits |-> "Total Deposits"]

\* the periods of sorted(data_by_period.items()) that hold the metric
SeriesPeriods(g, metric) ==
    SelectSeq(SortedKeys(DOMAIN g), LAMBDA p : metric \in DOMAIN g[p])

\* _calculate_growth_rates (lines 97-136)
calculate_growth_rates(g, query) ==
    LET targets == {i \in 1..Len(key_metrics) : InQuery(MetricWords[key_metrics[i]], query)}
    IN IF targets = {} THEN [raised |-> FALSE, calculations |-> <<>>, calls |-> <<>>]
       ELSE LET target_metric == key_metrics[CHOOSE i \in targets : \A j \in targets : i <= j]
                periods == SeriesPeriods(g, target_metric)
                values == [i \in 1..Len(periods) |-> g[periods[i]][target_metric]]
                n == Len(values)
                yoy == IF n >= 2 /\ InQuery(<<"year">>, query)
                       THEN <<[result |-> calculate_percentage_change(values[1], values[n]),
                               more |-> [metric |-> target_metric \o "_yoy_growth",
                                         periods |-> <<periods[1], periods[n]>>]]>>
                       ELSE <<>>
                sequential ==
                    [i \in 1..(n - 1) |->
                        [result |-> calculate_percentage_change(values[i], values[i + 1]),
                         more |-> [metric |-> target_metric \o "_sequential_growth",
                                   periods |-> <<periods[i], periods[i + 1]>>]]]
                all == IF n >= 2 THEN yoy \o sequential ELSE <<>>
            IN [raised |-> FALSE,
                calculations |-> [i \in 1..Len(all) |-> Merged(all[i].result, all[i].more)],
                calls |-> [i \in 1..Len(all) |-> all[i].result]]

\* _calculate_comprehensive_trends (lines 138-161)
calculate_comprehensive_trends(g) ==
    LET with_trend == SelectSeq(key_metrics, LAMBDA m : Len(SeriesPeriods(g, m)) > 1)
        trend(m) == LET periods == SeriesPeriods(g, m)
                    IN calculate_trend([i \in 1..Len(periods) |-> g[periods[i]][m]], periods)
    IN [raised |-> FALSE,
        calculations |->
            [i \in 1..Len(with_trend) |->
                Merged(trend(with_trend[i]),
                       [metric |-> with_trend[i] \o "_trend",
                        description |-> MetricTitle[with_trend[i]] \o " trend analysis"])],
        calls |-> [i \in 1..Len(with_trend) |-> trend(with_trend[i])]]

Nothing == [raised |-> FALSE, calculations |-> <<>>, calls |-> <<>>]

\* one part after another (lines 17-27): an exception of a part ends the call
Then(done, part) ==
    IF done.raised THEN done
    ELSE [raised |-> part.raised,
          calculations |-> done.calculations \o part.calculations,
          calls |-> done.calls \o part.calls]

\* perform_calculations (lines 9-29) on the grouped data; keys is the order
\* of the dict
perform_calculations(g, keys, query) ==
    LET roe == IF InQuery(<<"roe">>, query) \/ InQuery(<<"return", "on", "equity">>, query)
               THEN calculate_roe_trend(g, keys) ELSE Nothing
        ldr == IF InQuery(<<"loan-to-deposit">>, query) \/ InQuery(<<"ldr">>, query)
               THEN calculate_ldr_trend(g, keys) ELSE Nothing
        growth == IF InQuery(<<"percentage", "change">>, query) \/ InQuery(<<"growth">>, query)
                  THEN calculate_growth_rates(g, query) ELSE Nothing
        trends == IF InQuery(<<"trend">>, query)
                  THEN calculate_comprehensive_trends(g) ELSE Nothing
    IN Then(Then(Then(roe, ldr), growth), trends)


\* the data points handed to the agent: one family of metrics per list,
\* each metric in two periods, a denominator also with the value 0
AgentPoint(m, p, v) == [metric |-> m, period |-> p, value |-> v * Milli]

AgentPeriods == {"2022_Q4", "2023_Q1"}

AgentFamilies ==
    {{AgentPoint("net_profit", p, 100) : p \in AgentPeriods}
        \cup {AgentPoint("shareholder_equity", p, v) : p \in AgentPeriods, v \in {0, 1000}},
     {AgentPoint("total_loans", p, 300) : p \in AgentPeriods}
        \cup {AgentPoint("total_deposits", p, v) : p \in AgentPeriods, v \in {0, 400}},
     {AgentPoint("net_profit", p, v) : p \in AgentPeriods, v \in {100, 200}}
        \cup {AgentPoint("total_assets", p, 5000) : p \in AgentPeriods}}

\* the longest list of data points handed to the agent
MaxAgentPoints == 4

AgentInputs == UNION {[1..n -> family] : n \in 0..MaxAgentPoints, family \in AgentFamilies}

\* the queries, as their lowercase words
AgentQueries ==
    {<<"what", "is", "the", "roe">>,
     <<"ldr", "by", "quarter">>,
     <<"net", "profit", "growth", "year", "over", "year">>,
     <<"net", "profit", "trend">>,
     <<"return", "on", "equity", "and", "loan-to-deposit", "trend">>,
     <<"total", "assets">>}

InitAgent ==
    /\ pc = "group"
    /\ group_input \in AgentInputs
    /\ gi = 1
    /\ grouped = <<>>
    /\ ExtractIdle /\ ValidateIdle /\ ConvertIdle /\ ToolIdle

\* The mutant of PerformCalculations that does not wait for the grouping:
\* the calculations read the part of the data that is grouped so far.
PerformCalculations_Early ==
    /\ pc \in {"group", "grouped"}
    /\ \E query \in AgentQueries :
          LET done == perform_calculations(grouped, InsertionOrder(group_input), query)
          IN /\ calc_call' = [op |-> "perform_calculations", query |-> query]
             /\ calc_result' = IF done.raised THEN Raised("KeyError")
                                ELSE [returned |-> done.calculations]
             /\ calculation_history' =
                    calculation_history
                        \o SelectSeq(done.calls, LAMBDA r : "error" \notin DOMAIN r)
    /\ pc' = "calculated"
    /\ UNCHANGED <<extractVars, groupVars, validateVars, convertVars,
                   temporalVars, workflowVars>>

\* perform_calculations lines 16-29, after the grouping of line 14: the
\* calculator appends every result that is no error to its history; an
\* exception leaves the function
PerformCalculations ==
    /\ pc = "grouped"
    /\ \E query \in AgentQueries :
          LET done == perform_calculations(grouped, InsertionOrder(group_input), query)
          IN /\ calc_call' = [op |-> "perform_calculations", query |-> query]
             /\ calc_result' = IF done.raised THEN Raised("KeyError")
                                ELSE [returned |-> done.calculations]
             /\ calculation_history' =
                    calculation_history
                        \o SelectSeq(done.calls, LAMBDA r : "error" \notin DOMAIN r)
    /\ pc' = "calculated"
    /\ UNCHANGED <<extractVars, groupVars, validateVars, convertVars,
                   temporalVars, workflowVars>>

\* compare_periods as it is called: lines 99-100 subscript both arguments
\* with "year" and "quarter", and a missing key raises KeyError
compare_periods_call(period1, period2) ==
    IF \E key \in {"year", "quarter"} : key \notin DOMAIN period1 \/ key \notin DOMAIN period2
    THEN Raised("KeyError")
    ELSE compare_periods(period1, period2)

\* TemporalAnalysisAgent._compare_periods lines 90-102: the changes of the
\* metrics the two periods share
metric_changes(g, period1, period2) ==
    LET common_metrics == {m \in DOMAIN g[period1] \cap DOMAIN g[period2] : g[period1][m] # 0}
    IN [m \in common_metrics |->
           LET old_val == g[period1][m]
               new_val == g[period2][m]
               percentage_change == Rat((new_val - old_val) * 100, old_val)
           IN [absolute_change |-> new_val - old_val,
               percentage_change |-> percentage_change,
               trend |-> IF percentage_change[1] > 0 THEN "increasing" ELSE "decreasing"]]

\* TemporalAnalysisAgent._compare_periods (lines 72-106): an exception of
\* compare_periods leaves the function
analyzer_compare_periods(g) ==
    LET periods == SortedKeys(DOMAIN g)
        comparison(i) ==
            [period1 |-> periods[i],
             period2 |-> periods[i + 1],
             relationship |-> compare_periods_call([period |-> periods[i]],
                                                   [period |-> periods[i + 1]]),
             metric_changes |-> metric_changes(g, periods[i], periods[i + 1])]
    IN IF \E i \in 1..(Len(periods) - 1) : "raised" \in DOMAIN comparison(i).relationship
       THEN Raised("KeyError")
       ELSE [i \in 1..(Len(periods) - 1) |-> comparison(i)]

\* TemporalAnalysisAgent._calculate_metric_trends (lines 108-141)
calculate_metric_trends(g) ==
    LET all_metrics == UNION {DOMAIN g[p] : p \in DOMAIN g}
        series(m) == SeriesPeriods(g, m)
    IN [m \in {x \in all_metrics : Len(series(x)) >= 2} |->
           LET valid_periods == series(m)
               values == [i \in 1..Len(valid_periods) |-> g[valid_periods[i]][m]]
               first == values[1]
               last == values[Len(values)]
           IN [direction |-> IF last > first THEN "upward"
                             ELSE IF last < first THEN "downward" ELSE "stable",
               total_change_percentage |->
                   IF first # 0 THEN Rat((last - first) * 100, first) ELSE Rat(0, 1),
               periods_analyzed |-> Len(values),
               values |-> values,
               periods |-> valid_periods]]

\* TemporalAnalysisAgent.analyze (lines 10-33) on the grouped data
analyze(g, query, str_format) ==
    LET temporal_refs == extract_temporal_references(query, str_format)
        several == Cardinality(DOMAIN g) >= 2
        period_comparisons == IF several THEN analyzer_compare_periods(g) ELSE <<>>
    IN IF several /\ period_comparisons = Raised("KeyError")
       THEN Raised("KeyError")
       ELSE [period_comparisons |-> period_comparisons,
             trends |-> IF several THEN calculate_metric_trends(g) ELSE <<>>,
             seasonal_patterns |-> <<>>,
             query_temporal_context |-> temporal_refs]

\* the queries handed to the temporal agent
AnalyzerQueries == {QueryCompare, <<"last", "4", "quarters">>, <<"net", "profit", "trend">>}

\* orchestrator.analyze_temporal (lines 85-94): analyze of the data points,
\* after the grouping of line 14
Analyze ==
    /\ pc = "grouped"
    /\ \E query \in AnalyzerQueries, str_format \in BOOLEAN :
          /\ t_call' = [op |-> "analyze", text |-> query, str_format |-> str_format]
          /\ t_result' = analyze(grouped, query, str_format)
    /\ pc' = "analyzed"
    /\ UNCHANGED <<extractVars, groupVars, validateVars, convertVars,
                   calcVars, workflowVars>>

NextAgent ==
    \/ GroupStep
    \/ GroupReturn
    \/ PerformCalculations
    \/ Analyze

SpecAgent == InitAgent /\ [][NextAgent]_vars

-----------------------------------------------------------------------------
(* One query from the chunks to the calculations: SpecPipeline *)

\* chunks of three periods with text and table metrics, and one that fails
PipelineChunks ==
    {Chunk(ContentNetProfit, MetaQ1, TableNone),
     Chunk(ContentBillion, MetaQ3, TableMain),
     Chunk(ContentBillion, MetaPages, TableCell),
     Chunk(ContentBillion, MetaQ5, TableMain)}

InitPipeline ==
    /\ pc = "loop"
    /\ search_results \in UNION {[1..n -> PipelineChunks] : n \in 1..MaxChunks}
    /\ ci = 1
    /\ cleaned_metadata = None
    /\ period = ""
    /\ todo = <<>>
    /\ metrics = <<>>
    /\ data_points = <<>>
    /\ log = <<>>
    /\ GroupIdle /\ ValidateIdle /\ ConvertIdle /\ ToolIdle

\* orchestrator lines 33-45: after extract_data the query goes to
\* perform_calculations or to analyze_temporal
NextPipeline ==
    \/ Next
    \/ PerformCalculations
    \/ Analyze

SpecPipeline == InitPipeline /\ [][NextPipeline]_vars

-----------------------------------------------------------------------------
(* Claims C25, C27 on CalculationAgent, under SpecAgent *)

Calculated == pc = "calculated"

AsksRatio(query) ==
    \/ InQuery(<<"roe">>, query) \/ InQuery(<<"return", "on", "equity">>, query)
    \/ InQuery(<<"loan-to-deposit">>, query) \/ InQuery(<<"ldr">>, query)

\* C25: perform_calculations on an ROE or loan-to-deposit query returns
\* for every list of data points, also when a period has shareholder_equity
\* or total_deposits 0: it does not raise, and every value of a ratio trend
\* is the percentage of a result that is no error variant.
C25_ErrorVariantChecked ==
    (Calculated /\ AsksRatio(calc_call.query)) =>
        /\ "raised" \notin DOMAIN calc_result
        /\ \A i \in 1..Len(calc_result.returned) :
              LET c == calc_result.returned[i]
              IN ("metric" \in DOMAIN c /\ c.metric \in {"roe_trend", "ldr_trend"}) =>
                    \A k \in 1..Len(c.values) :
                        \E j \in 1..Len(calc_result.returned) :
                            LET r == calc_result.returned[j]
                            IN \/ "roe_percentage" \in DOMAIN r /\ r.roe_percentage = c.values[k]
                               \/ "ldr_percentage" \in DOMAIN r /\ r.ldr_percentage = c.values[k]

\* year * 4 + quarter ordinal of a quarterly period key
ChronoRank ==
    [p \in {ToString(y) \o "_" \o q : y \in 2021..2024, q \in DOMAIN Ordinal} |->
        CHOOSE r \in (2021 * 4)..(2024 * 4 + 4) :
            \E y \in 2021..2024, q \in DOMAIN Ordinal :
                p = ToString(y) \o "_" \o q /\ r = y * 4 + Ordinal[q]]

IsTrend(c) == "calculation_type" \in DOMAIN c /\ c.calculation_type = "trend_analysis"

\* C27: every trend the agent returns (ROE trend, loan-to-deposit trend,
\* the trend of each metric) lists its periods in ascending chronological
\* order, by year and then quarter, in whatever order the data points came.
C27_TrendsChronological ==
    (Calculated /\ "returned" \in DOMAIN calc_result) =>
        \A i \in 1..Len(calc_result.returned) :
            LET c == calc_result.returned[i]
            IN IsTrend(c) =>
                  \A a, b \in 1..Len(c.periods) :
                      a < b => ChronoRank[c.periods[a]] < ChronoRank[c.periods[b]]


\* the year and the quarter a quarterly period key states
PeriodParts ==
    [p \in {ToString(y) \o "_" \o q : y \in 2021..2024, q \in DOMAIN Ordinal} |->
        CHOOSE r \in [year : 2021..2024, quarter : DOMAIN Ordinal] :
            p = ToString(r.year) \o "_" \o r.quarter]

\* C26: analyze on data points of two or more periods returns its analysis
\* and does not raise: period_comparisons has one entry per pair of
\* adjacent sorted periods, the relationship of each entry is what
\* compare_periods gives for the two periods, and the trends are there.
C26_AnalysisReturned ==
    (pc = "analyzed" /\ Cardinality(DOMAIN grouped) >= 2) =>
        /\ "raised" \notin DOMAIN t_result
        /\ LET periods == SortedKeys(DOMAIN grouped)
           IN /\ Len(t_result.period_comparisons) = Len(periods) - 1
              /\ \A i \in 1..(Len(periods) - 1) :
                    LET entry == t_result.period_comparisons[i]
                    IN /\ entry.period1 = periods[i]
                       /\ entry.period2 = periods[i + 1]
                       /\ entry.relationship = compare_periods(PeriodParts[periods[i]],
                                                               PeriodParts[periods[i + 1]])
        /\ "trends" \in DOMAIN t_result

-----------------------------------------------------------------------------
(* Claim C30: the period of a data point, under Spec *)

\* the raw metadata of the chunk states a year and a quarter/annual flag
StatesPeriod(raw_metadata) ==
    "year" \in DOMAIN raw_metadata /\ "quarter" \in DOMAIN raw_metadata

\* C30: a chunk whose metadata does not supply a year or a quarter/annual
\* flag yields no data point, and the period of every data point is made of
\* the year and the quarter its chunk's metadata states.
C30_PeriodNotFabricated ==
    ChunkDone =>
        /\ ~StatesPeriod(search_results[ci].metadata) => metrics = <<>>
        /\ \A i \in 1..Len(metrics) :
              /\ StatesPeriod(search_results[ci].metadata)
              /\ metrics[i].metadata.quarter = search_results[ci].metadata.quarter

-----------------------------------------------------------------------------
(* Claim C23: the order of the stages, under SpecPipeline *)

\* _group_data_by_period of a whole list
RECURSIVE GroupAll(_)
GroupAll(points) ==
    IF points = <<>> THEN <<>>
    ELSE GroupPut(GroupAll(SubSeq(points, 1, Len(points) - 1)), points[Len(points)])

Appended(list, list2) == Len(list2) = Len(list) + 1 /\ SubSeq(list2, 1, Len(list)) = list

\* C23: within one query the stages follow one another: the value a text
\* candidate is validated with is the one the normalizer returned for its
\* literal, and a table metric is validated as the parser gave it; a data
\* point exists only for a value validated as valid; the grouping starts
\* when the extraction of every chunk is over and takes exactly the data
\* points extracted; and a calculation or analysis runs only on the
\* grouping of all of them.
C23_StagesInOrder ==
    /\ [][(pc = "text" /\ todo # <<>> /\ metrics' # metrics) =>
             LET numeric_value == convert_to_numeric(Head(todo).value_str)
             IN /\ Appended(metrics, metrics')
                /\ metrics'[Len(metrics')].value = numeric_value
                /\ validate_extraction(Head(todo).metric_name, numeric_value).is_valid]_vars
    /\ [][(pc = "table" /\ todo # <<>> /\ metrics' # metrics) =>
             /\ Appended(metrics, metrics')
             /\ metrics'[Len(metrics')].value = Get(Head(todo).info, "value", 0)
             /\ validate_extraction(Head(todo).name, metrics'[Len(metrics')].value).is_valid]_vars
    /\ [](\A i \in 1..Len(data_points) :
             validate_extraction(data_points[i].metric, data_points[i].value).is_valid)
    /\ [](pc \in {"group", "grouped", "calculated", "analyzed"} =>
             /\ ci = Len(search_results) + 1
             /\ group_input = data_points
             /\ grouped = GroupAll(SubSeq(group_input, 1, gi - 1)))
    /\ [][(calc_result' # calc_result \/ t_result' # t_result) =>
             /\ pc = "grouped"
             /\ grouped = GroupAll(data_points)]_vars
    /\ [](pc = "calculated" =>
             LET done == perform_calculations(GroupAll(data_points),
                                              InsertionOrder(data_points), calc_call.query)
             IN calc_result = IF done.raised THEN Raised("KeyError")
                              ELSE [returned |-> done.calculations])

\* a trend was calculated over a normalized text value and a table value
\* of two chunks
C23_Witness ==
    /\ pc = "calculated"
    /\ Len(search_results) = 2
    /\ \E i, j \in 1..Len(data_points) :
          /\ data_points[i].origin.path = "text"
          /\ data_points[j].origin.path = "table"
          /\ data_points[i].period # data_points[j].period
    /\ "returned" \in DOMAIN calc_result
    /\ \E i \in 1..Len(calc_result.returned) : IsTrend(calc_result.returned[i])

-----------------------------------------------------------------------------
(* Two queries on one FinancialCalculator: SpecShared *)

\* The mutant of Call in which a calculation reads the history: the ROE
\* takes the length of the log for its equity.
Call_ReadsHistory(history, call) ==
    LET result ==
            CASE call.op = "calculate_percentage_change" ->
                     calculate_percentage_change(call.a, call.b)
              [] call.op = "calculate_roe" -> calculate_roe(call.a, Len(history))
              [] call.op = "calculate_loan_to_deposit" -> calculate_loan_to_deposit(call.a, call.b)
              [] call.op = "calculate_nim" -> calculate_nim(call.a, call.b)
              [] call.op = "calculate_trend" -> calculate_trend(call.values, call.periods)
    IN [result |-> result,
        history |-> IF "error" \in DOMAIN result THEN history ELSE Append(history, result)]

\* one call of the calculator (lines 9-111) on the history it finds: the
\* result, and the history it leaves
Call(history, call) ==
    LET result ==
            CASE call.op = "calculate_percentage_change" ->
                     calculate_percentage_change(call.a, call.b)
              [] call.op = "calculate_roe" -> calculate_roe(call.a, call.b)
              [] call.op = "calculate_loan_to_deposit" -> calculate_loan_to_deposit(call.a, call.b)
              [] call.op = "calculate_nim" -> calculate_nim(call.a, call.b)
              [] call.op = "calculate_trend" -> calculate_trend(call.values, call.periods)
    IN [result |-> result,
        history |-> IF "error" \in DOMAIN result THEN history ELSE Append(history, result)]

\* the calls a query makes
SharedCalls ==
    {[op |-> "calculate_roe", a |-> 100, b |-> 0],
     [op |-> "calculate_roe", a |-> 100, b |-> 200],
     [op |-> "calculate_percentage_change", a |-> 100, b |-> 150],
     [op |-> "calculate_trend", values |-> <<100, 200, 150>>,
      periods |-> SubSeq(PeriodNames, 1, 3)]}

\* the most calls one query makes
MaxCalls == 2

Queriers == {1, 2}

InitShared ==
    /\ pc = "shared"
    /\ calc_call \in [Queriers -> UNION {[1..n -> SharedCalls] : n \in 0..MaxCalls}]
    /\ calc_result = [q \in Queriers |-> <<>>]
    /\ calculation_history = <<>>
    /\ ExtractIdle /\ GroupIdle /\ ValidateIdle /\ ConvertIdle /\ TemporalIdle
    /\ WorkflowIdle

\* the next call of one of the queries, in any interleaving
SharedCall ==
    /\ pc = "shared"
    /\ \E q \in Queriers :
          /\ Len(calc_result[q]) < Len(calc_call[q])
          /\ LET done == Call(calculation_history, calc_call[q][Len(calc_result[q]) + 1])
             IN /\ calc_result' = [calc_result EXCEPT ![q] = Append(@, done.result)]
                /\ calculation_history' = done.history
    /\ UNCHANGED <<pc, calc_call, extractVars, groupVars, validateVars, convertVars,
                   temporalVars, workflowVars>>

NextShared == SharedCall

SpecShared == InitShared /\ [][NextShared]_vars

-----------------------------------------------------------------------------
(* Claim C24: the history is append-only and never read, under SpecShared *)

\* the results of a query that runs alone on a calculator of its own
RECURSIVE RunAlone(_, _)
RunAlone(calls, history) ==
    IF calls = <<>> THEN <<>>
    ELSE LET done == Call(history, Head(calls))
         IN <<done.result>> \o RunAlone(Tail(calls), done.history)

IsErrorResult(r) == "error" \in DOMAIN r

\* C24: calculation_history is append-only and no calculation reads it: a
\* call that succeeds appends exactly its result, a call that returns the
\* error variant appends nothing, no entry is removed or rewritten; and the
\* calls of two queries interleaved in any order on one calculator return
\* what each query gets when it runs alone.
C24_HistoryAppendOnly ==
    /\ [][\E q \in Queriers :
             /\ Appended(calc_result[q], calc_result'[q])
             /\ LET r == calc_result'[q][Len(calc_result'[q])]
                IN IF IsErrorResult(r)
                   THEN calculation_history' = calculation_history
                   ELSE calculation_history' = Append(calculation_history, r)]_vars
    /\ [](pc = "shared" =>
             \A q \in Queriers :
                 calc_result[q] = SubSeq(RunAlone(calc_call[q], <<>>), 1, Len(calc_result[q])))

\* both queries ran to their end, interleaved: the second query's call came
\* between the two calls of the first
C24_Witness ==
    /\ pc = "shared"
    /\ Len(calc_call[1]) = 2 /\ Len(calc_result[1]) = 2
    /\ Len(calc_call[2]) = 1 /\ Len(calc_result[2]) = 1
    /\ ~IsErrorResult(calc_result[1][1])
    /\ ~IsErrorResult(calc_result[1][2])
    /\ ~IsErrorResult(calc_result[2][1])
    /\ calc_result[1][1] # calc_result[2][1]
    /\ calc_result[1][2] # calc_result[2][1]
    /\ calculation_history = <<calc_result[1][1], calc_result[2][1], calc_result[1][2]>>

-----------------------------------------------------------------------------
(* OrchestratorAgent, the workflow graph: SpecWorkflow *)

\* QueryClassifier.classify (lines 186-201), the query as its lowercase words
classify(query) ==
    LET any(words) == \E w \in words : InQuery(w, query)
    IN IF any({<<"calculate">>, <<"ratio">>, <<"percentage">>, <<"growth", "rate">>})
       THEN "calculation"
       ELSE IF any({<<"trend">>, <<"over", "time">>, <<"last">>, <<"previous">>})
       THEN "trend_analysis"
       ELSE IF any({<<"compare">>, <<"vs">>, <<"versus">>, <<"difference">>})
       THEN "temporal_comparison"
       ELSE IF any({<<"risk">>, <<"factors">>, <<"challenges">>})
       THEN "risk_analysis"
       ELSE IF any({<<"how">>, <<"why">>, <<"explain">>, <<"factors">>})
       THEN "multi_hop"
       ELSE "single_fact"

\* route_after_extraction (lines 141-150), mapped to the node of the edge
\* table (lines 36-41)
route_after_extraction(s) ==
    IF s.query_type \in {"calculation", "trend_analysis"} THEN "perform_calculations"
    ELSE IF s.query_type = "temporal_comparison" THEN "analyze_temporal"
    ELSE IF s.query_type = "risk_analysis" THEN "analyze_risks"
    ELSE "synthesize_results"

\* final_validation (lines 152-156), mapped to the node of the edge table
\* (lines 50-53): a set error is truthy, so line 155 returns "approve"
final_validation(s) ==
    IF s.error # None \/ s.iteration_count >= 3 THEN "END"
    ELSE IF s.error = None THEN "END" ELSE "extract_data"

\* ValidationAgent.validation_rules (lines 7-12), as <<low, high>>
validation_rules ==
    [net_profit_margin |-> <<0, 100>>,
     roe |-> <<-100, 100>>,
     loan_to_deposit_ratio |-> <<0, 200>>,
     percentage_change |-> <<-1000, 1000>>]

Rule(name, x) ==
    validation_rules[name][1] * Milli <= x /\ x <= validation_rules[name][2] * Milli

\* f"{x}" of a float with a whole value, x in thousandths
FloatRepr(x) == ToString(x \div Milli) \o ".0"

\* ValidationAgent._validate_data_points (lines 52-101), the errors
RECURSIVE RangeErrors(_)
RangeErrors(points) ==
    IF points = <<>> THEN <<>>
    ELSE LET dp == Head(points)
         IN (IF dp.metric \in DOMAIN validation_rules /\ ~Rule(dp.metric, dp.value)
             THEN <<"Invalid " \o dp.metric \o ": " \o FloatRepr(dp.value)>>
             ELSE <<>>) \o RangeErrors(Tail(points))

validate_data_points(points) ==
    IF points = <<>> THEN <<"No data points extracted">> ELSE RangeErrors(points)

\* ValidationAgent._validate_calculations (lines 103-145), the errors
RECURSIVE validate_calculations(_, _)
validate_calculations(calculations, i) ==
    IF i > Len(calculations) THEN <<>>
    ELSE LET calc == calculations[i]
             found ==
                 IF "error" \in DOMAIN calc
                 THEN <<"Calculation " \o ToString(i) \o " error: " \o calc.error>>
                 ELSE IF calc.calculation_type = "percentage_change"
                         /\ ~Rule("percentage_change", calc.percentage_change)
                 THEN <<"Invalid percentage change: " \o FloatRepr(calc.percentage_change)>>
                 ELSE IF calc.calculation_type = "roe" /\ ~Rule("roe", calc.roe_percentage)
                 THEN <<"Invalid ROE: " \o FloatRepr(calc.roe_percentage)>>
                 ELSE <<>>
         IN found \o validate_calculations(calculations, i + 1)

\* ValidationAgent.validate (lines 14-50): is_valid and errors
validate(points, calculations) ==
    LET errors == validate_data_points(points) \o validate_calculations(calculations, 1)
    IN [is_valid |-> errors = <<>>, errors |-> errors]

\* ", ".join(errors) (line 134)
RECURSIVE Join(_)
Join(errors) ==
    IF Len(errors) = 1 THEN errors[1] ELSE errors[1] \o ", " \o Join(Tail(errors))

\* WorkflowState(query=query) (schemas.py lines 80-90, orchestrator.py line 160)
WorkflowState(query) ==
    [query |-> query, query_type |-> None, current_step |-> "initial",
     extracted_data |-> <<>>, calculations |-> <<>>, error |-> None,
     iteration_count |-> 0]

WorkflowQueries ==
    {<<"calculate", "roe">>,
     <<"net", "profit", "growth", "rate">>,
     <<"net", "profit", "trend">>,
     <<"last", "4", "quarters">>,
     QueryCompare,
     <<"loans", "versus", "deposits">>,
     <<"risk", "factors">>,
     <<"explain", "why">>,
     QueryQ5,
     <<"total", "assets">>}

\* what extractor.extract_data can hand back (line 69)
WorkflowData ==
    {<<>>,
     <<AgentPoint("net_profit", "2023_Q1", 100)>>,
     <<AgentPoint("loan_to_deposit_ratio", "2023_Q1", 85)>>,
     <<AgentPoint("net_profit", "2023_Q1", 100),
       AgentPoint("loan_to_deposit_ratio", "2023_Q1", 250)>>}

\* what calculator.perform_calculations can hand back (line 77), reduced to
\* the fields the validation reads
WorkflowCalculations ==
    {<<>>,
     <<[calculation_type |-> "trend"]>>,
     <<[calculation_type |-> "percentage_change", percentage_change |-> 1500 * Milli]>>,
     <<[error |-> "Cannot calculate percentage change from zero"]>>}

InitWorkflow ==
    /\ pc = "classify_query"
    /\ state \in {WorkflowState(query) : query \in WorkflowQueries}
    /\ ExtractIdle /\ GroupIdle /\ ValidateIdle /\ ConvertIdle /\ CalcIdle
    /\ TemporalIdle

Node(name, next, after) ==
    /\ pc = name
    /\ state' = after
    /\ pc' = next
    /\ UNCHANGED <<extractVars, groupVars, validateVars, convertVars,
                   calcVars, temporalVars>>

\* classify_query (lines 58-64), edge to extract_data (line 32)
NodeClassifyQuery ==
    Node("classify_query", "extract_data",
         [state EXCEPT !.query_type = classify(state.query),
                       !.current_step = "query_classified"])

\* extract_data (lines 66-72), conditional edge (lines 33-42)
NodeExtractData ==
    \E data \in WorkflowData :
        LET after == [state EXCEPT !.extracted_data = data,
                                   !.current_step = "data_extracted"]
        IN Node("extract_data", route_after_extraction(after), after)

\* perform_calculations (lines 74-83), edge to synthesize_results (line 43);
\* an exception of the agent leaves the workflow
NodePerformCalculations ==
    \/ \E calculations \in WorkflowCalculations :
          Node("perform_calculations", "synthesize_results",
               [state EXCEPT !.calculations = calculations,
                             !.current_step = "calculations_completed"])
    \/ Node("perform_calculations", "raised", state)

\* analyze_temporal (lines 85-94), edge to synthesize_results (line 44);
\* an exception of the agent leaves the workflow
NodeAnalyzeTemporal ==
    \/ Node("analyze_temporal", "synthesize_results",
            [state EXCEPT !.current_step = "temporal_analysis_completed"])
    \/ Node("analyze_temporal", "raised", state)

\* analyze_risks (lines 96-105), edge to synthesize_results (line 45)
NodeAnalyzeRisks ==
    Node("analyze_risks", "synthesize_results",
         [state EXCEPT !.current_step = "risk_analysis_completed"])

\* synthesize_results (lines 107-118), edge to validate_output (line 46)
NodeSynthesizeResults ==
    Node("synthesize_results", "validate_output",
         [state EXCEPT !.current_step = "synthesis_completed"])

\* validate_output (lines 120-139), conditional edge (lines 47-54)
NodeValidateOutput ==
    LET validation_result == validate(state.extracted_data, state.calculations)
        after ==
            IF validation_result.is_valid
            THEN [state EXCEPT !.current_step = "validation_passed"]
            ELSE [state EXCEPT
                     !.error = IF validation_result.errors # <<>>
                               THEN PyStr(Join(validation_result.errors))
                               ELSE PyStr("Validation failed"),
                     !.iteration_count = @ + 1]
    IN Node("validate_output", final_validation(after), after)

NextWorkflow ==
    \/ NodeClassifyQuery
    \/ NodeExtractData
    \/ NodePerformCalculations
    \/ NodeAnalyzeTemporal
    \/ NodeAnalyzeRisks
    \/ NodeSynthesizeResults
    \/ NodeValidateOutput

SpecWorkflow == InitWorkflow /\ [][NextWorkflow]_vars

-----------------------------------------------------------------------------
(* Claim C29 *)

\* C29: when validate_output records a validation error while
\* iteration_count is below 3, the workflow goes back to extract_data; an
\* output with errors reaches END only once iteration_count has reached 3;
\* and iteration_count never passes 3.
C29_RetryUntilThree ==
    /\ [][(pc = "validate_output" /\ state'.error # None /\ state'.iteration_count < 3)
             => pc' = "extract_data"]_vars
    /\ [](pc = "END" /\ state.error # None => state.iteration_count >= 3)
    /\ [](state.iteration_count <= 3)

====
